---------------------------- MODULE Spec2Model ----------------------------
(***************************************************************************)
(* Model of the Octopus French Energy API client                           *)
(* (custom_components/octopus_french/octopus_french.py) and of the data    *)
(* update coordinator that drives it (coordinator.py).                     *)
(*                                                                         *)
(*   TokenManager            token, expiry, is_valid, set_token, clear     *)
(*   OctopusFrenchApiClient  _async_execute, authenticate,                 *)
(*                           _execute_with_auth                            *)
(*   coordinator             _async_update_data (error wrapping)           *)
(*                                                                         *)
(* asyncio tasks run one at a time and give up control only at an await    *)
(* that really suspends (the HTTP POST, asyncio.sleep, a contended lock),  *)
(* so every action below is the code between two such suspension points.   *)
(***************************************************************************)
EXTENDS Integers, Sequences, FiniteSets, TLC

(***************************************************************************)
(* Program constants.                                                      *)
(***************************************************************************)
TOKEN_EXPIRY_BUFFER == 60
MAX_RETRY_ATTEMPTS == 3
RETRY_DELAY == 1
\* the fallback lifetime of set_token: datetime.now(UTC).timestamp() + 3600
DEFAULT_LIFETIME == 3600

(***************************************************************************)
(* Bounds of the model.                                                    *)
(***************************************************************************)
\* number of concurrent tasks that call into one client
NumTasks == 2
\* the clock (seconds) at the start of a behaviour
T0 == 100
\* how far, in seconds, the clock of the client specification advances
MaxElapsed == 3
\* how many jumps of the clock the TokenManager specification makes
MaxTicks == 6
\* for how many seconds a short-lived token of the server stays usable
ShortLife == 1
\* how many POSTs in a row the network lets fail before it answers
MaxFailures == 3

Tasks == 1..NumTasks

\* Python's None and a present value
None == <<>>
Some(x) == <<x>>

VARIABLES
    \* TokenManager
    token,        \* TokenManager._token: None or Some(token)
    expiry,       \* TokenManager._expiry: None or Some(seconds)
    \* the wall clock read by datetime.now(UTC).timestamp()
    now,
    \* OctopusFrenchApiClient._auth_lock (asyncio.Lock: owner and FIFO waiters)
    lock_holder,  \* 0 when unlocked, else the task inside "async with"
    lock_waiters, \* tasks suspended in acquire(), oldest first
    \* the position of each task
    pc,           \* "idle", "lock_wait", "post", "sleep", "done"
    op,           \* the entry point the task called: "authenticate" /
                  \* "refresh"; "cycle" for a call made by the refresh cycle
    ctx,          \* which request its _async_execute carries: "login" / "query"
    attempt,      \* loop variable of _async_execute (0-based)
    retry_count,  \* parameter of _execute_with_auth
    wake_at,      \* the instant its asyncio.sleep ends
    \* what each task observed (history, read only by the properties)
    set_at,       \* the clock when set_token last ran
    ticks,        \* number of clock jumps taken (TokenManager specification)
    logins,       \* executions of the login mutation so far, by all tasks
    mylogins,     \* executions of the login mutation by the task
    waited_for,   \* the task that held the lock when the task queued for it
    posts,        \* POSTs made by the task's current _async_execute call
    outs,         \* how the finished POSTs of that call ended
    waits,        \* the delays that call asked asyncio.sleep for
    xres,         \* how the task's last _async_execute call ended
    login_body,   \* the last login response the task's authenticate() read
    authres,      \* how its authenticate() ended, per retry_count (0, 1)
    sent,         \* the tokens (by id, 0 for None) in the header of its data queries
    sent_valid,   \* for each of them, is_valid when the header was built
    resp,         \* the bodies its data queries returned
    cleared,      \* the tokens (by id, 0 for None) it removed with clear()
    ret,          \* how its entry point ended
    surfaced,     \* what _async_update_data handed to the host
    \* the extraction functions of the client, on their own
    account,      \* the "account" object handed to _extract_ledgers
    ledgers,      \* None, or Some(what _extract_ledgers returned for it)
    rates,        \* the consumptionRates nodes handed to _extract_tariffs
    tariffs,      \* None, or Some(what _extract_tariffs returned for them)
    \* the HTTP session of the client, on its own
    session,        \* OctopusFrenchApiClient._session: 0 for None, else a session
    open_sessions,  \* the sessions created so far that are not closed
    created,        \* number of aiohttp.ClientSession() calls so far
    rpc,            \* per request: "idle", "post" (in session.post), "sleep"
    rsess,          \* per request: the session its last POST was made on
    rres,           \* per request: how its last _async_execute call ended
    cpc,            \* close(): "idle", or "closing" (in "await session.close()")
    closes,         \* number of close() calls made so far
    \* the refresh cycle of the coordinator
    upstream,     \* what the upstream answers to each query
    revoked,      \* the server rejects the tokens with an id up to this one
    cycle,        \* _fetch_all_data: its position and its local variables
    issued,       \* the queries the cycles issued, in order
    answered,     \* how many of them have ended
    data,         \* coordinator.data: None, or Some(the last snapshot delivered)
    results,      \* how each refresh so far ended at the host
    \* the normalizers of get_account_data on incomplete payloads
    norm,         \* the payload and, per normalizer, how its call ended
    \* async_setup_entry and async_unload_entry of one config entry
    setup,        \* where the entry is in its life, and how the last call ended
    \* the statistics import of one electricity index sensor
    stats         \* the import state of the sensor and the recorder's rows

tmvars == <<token, expiry, now, set_at, ticks>>
lockvars == <<lock_holder, lock_waiters>>
taskvars == <<pc, op, ctx, attempt, retry_count, wake_at>>
histvars == <<logins, mylogins, waited_for, posts, outs, waits, xres,
              login_body, authres, sent, sent_valid, resp, cleared, ret,
              surfaced>>
purevars == <<account, ledgers, rates, tariffs>>
sessvars == <<session, open_sessions, created, rpc, rsess, rres, cpc, closes>>
cyclevars == <<upstream, revoked, cycle, issued, answered, data, results>>
morevars == <<norm, setup, stats>>
vars == <<tmvars, lockvars, taskvars, histvars, purevars, sessvars, cyclevars,
          morevars>>

(***************************************************************************)
(* Tokens.  A token is the string the login mutation returns; the model    *)
(* keeps what jwt.decode can see of it:                                    *)
(*   id    which login issued it (0 for a token not issued by a login)     *)
(*   kind  "jwt"       a JWT whose payload has a numeric exp claim         *)
(*         "noexp"     a JWT whose payload has no exp claim                *)
(*         "malformed" not a JWT: jwt.decode raises DecodeError            *)
(*   exp   the exp claim (seconds), 0 when there is none                   *)
(***************************************************************************)
Token(i, k, e) == [id |-> i, kind |-> k, exp |-> e]

\* the id of an optional token, 0 for None
TokenId(tk) == IF tk = None THEN 0 ELSE tk[1].id

\* jwt.decode(token, options={"verify_signature": False}): the payload, or
\* None when decoding raises (the raise is caught by suppress(Exception))
JwtDecode(tok) ==
    IF tok.kind = "malformed" THEN None
    ELSE Some([has_exp |-> tok.kind = "jwt", exp |-> tok.exp])

\* "if exp := decoded.get("exp")": the claim is used when it is present and
\* truthy (a number other than 0)
DecodedExp(tok) ==
    LET d == JwtDecode(tok)
    IN  IF d # None /\ d[1].has_exp /\ d[1].exp # 0 THEN Some(d[1].exp) ELSE None

\* (variant: the fallback lifetime is not applied when no exp is decoded)
SetTokenExpiryNoFallback(tok, t) ==
    IF DecodedExp(tok) # None THEN DecodedExp(tok)[1] ELSE t

\* the expiry set_token stores for tok at instant t
SetTokenExpiry(tok, t) ==
    IF DecodedExp(tok) # None THEN DecodedExp(tok)[1] ELSE t + DEFAULT_LIFETIME

\* (variant: the instant expiry - buffer itself still counts as valid)
IsValidAtInclusive(tk, ex, t) ==
    /\ tk # None
    /\ ex # None
    /\ ex[1] # 0
    /\ t <= ex[1] - TOKEN_EXPIRY_BUFFER

\* TokenManager.is_valid for a given token, expiry and instant
IsValidAt(tk, ex, t) ==
    /\ tk # None
    /\ ex # None
    /\ ex[1] # 0
    /\ t < ex[1] - TOKEN_EXPIRY_BUFFER

\* TokenManager.is_valid
IsValid == IsValidAt(token, expiry, now)

\* the current state as one record, so that the statements of a coroutine
\* compose as functions from state to state
S ==
    [token |-> token, expiry |-> expiry, now |-> now, set_at |-> set_at,
     ticks |-> ticks, lock_holder |-> lock_holder,
     lock_waiters |-> lock_waiters, pc |-> pc, op |-> op, ctx |-> ctx,
     attempt |-> attempt, retry_count |-> retry_count, wake_at |-> wake_at,
     logins |-> logins, mylogins |-> mylogins, waited_for |-> waited_for,
     posts |-> posts, outs |-> outs, waits |-> waits,
     xres |-> xres, login_body |-> login_body, authres |-> authres,
     sent |-> sent, sent_valid |-> sent_valid, resp |-> resp, cleared |-> cleared, ret |-> ret,
     surfaced |-> surfaced]

\* the next state of the client is the record s
CommitClient(s) ==
    /\ token' = s.token
    /\ expiry' = s.expiry
    /\ now' = s.now
    /\ set_at' = s.set_at
    /\ ticks' = s.ticks
    /\ lock_holder' = s.lock_holder
    /\ lock_waiters' = s.lock_waiters
    /\ pc' = s.pc
    /\ op' = s.op
    /\ ctx' = s.ctx
    /\ attempt' = s.attempt
    /\ retry_count' = s.retry_count
    /\ wake_at' = s.wake_at
    /\ logins' = s.logins
    /\ mylogins' = s.mylogins
    /\ waited_for' = s.waited_for
    /\ posts' = s.posts
    /\ outs' = s.outs
    /\ waits' = s.waits
    /\ xres' = s.xres
    /\ login_body' = s.login_body
    /\ authres' = s.authres
    /\ sent' = s.sent
    /\ sent_valid' = s.sent_valid
    /\ resp' = s.resp
    /\ cleared' = s.cleared
    /\ ret' = s.ret
    /\ surfaced' = s.surfaced

\* the next state is the record s (computed once, then assigned)
Commit(s) ==
    \E next \in {s} :
        /\ CommitClient(next)
        /\ UNCHANGED <<purevars, sessvars, cyclevars, morevars>>

NoRet == [kind |-> "none", val |-> ""]

\* the client after OctopusFrenchApiClient.__init__
InitClient ==
    /\ token = None
    /\ expiry = None
    /\ now = T0
    /\ set_at = 0
    /\ ticks = 0
    /\ lock_holder = 0
    /\ lock_waiters = <<>>
    /\ pc = [t \in Tasks |-> "idle"]
    /\ op = [t \in Tasks |-> "none"]
    /\ ctx = [t \in Tasks |-> "none"]
    /\ attempt = [t \in Tasks |-> 0]
    /\ retry_count = [t \in Tasks |-> 0]
    /\ wake_at = [t \in Tasks |-> 0]
    /\ logins = 0
    /\ mylogins = [t \in Tasks |-> 0]
    /\ waited_for = [t \in Tasks |-> 0]
    /\ posts = [t \in Tasks |-> 0]
    /\ outs = [t \in Tasks |-> <<>>]
    /\ waits = [t \in Tasks |-> <<>>]
    /\ xres = [t \in Tasks |-> "none"]
    /\ login_body = [t \in Tasks |-> "none"]
    /\ authres = [t \in Tasks |-> <<"none", "none">>]
    /\ sent = [t \in Tasks |-> <<>>]
    /\ sent_valid = [t \in Tasks |-> <<>>]
    /\ resp = [t \in Tasks |-> <<>>]
    /\ cleared = [t \in Tasks |-> <<>>]
    /\ ret = [t \in Tasks |-> NoRet]
    /\ surfaced = [t \in Tasks |-> "none"]

\* no account object and no rate list at hand
NoAccount == [meters |-> <<>>, ledgers |-> <<>>, credit |-> <<>>]

InitLedgersIdle == account = NoAccount /\ ledgers = None
InitTariffsIdle == rates = <<>> /\ tariffs = None

\* self._session = None, and nothing has used the client yet
InitSession ==
    /\ session = 0
    /\ open_sessions = {}
    /\ created = 0
    /\ rpc = [r \in Tasks |-> "idle"]
    /\ rsess = [r \in Tasks |-> 0]
    /\ rres = [r \in Tasks |-> "none"]
    /\ cpc = "idle"
    /\ closes = 0

\* the dict get_account_data returns when data.account is missing, {}; a
\* key that is not set is "" or None
NoData ==
    [account_id |-> "", account_number |-> "", ledgers |-> <<>>,
     supply_points |-> [electricity |-> <<>>, gas |-> <<>>],
     electricity |-> None, gas |-> None, payment_requests |-> None]

\* no refresh is running
IdleCycle ==
    [pos |-> "idle", ad |-> NoData, readings |-> <<>>, pending |-> <<>>,
     pay |-> <<>>]

\* the coordinator before its first refresh
InitCoordinator ==
    /\ revoked = 0
    /\ cycle = IdleCycle
    /\ issued = <<>>
    /\ answered = 0
    /\ data = None
    /\ results = <<>>

\* no payload at hand
InitNormIdle == norm = [payload |-> "none"]
\* no config entry is set up
InitSetupIdle == setup = [pos |-> "none"]
\* no sensor imports statistics
InitStatsIdle == stats = [pos |-> "none"]
InitMoreIdle == InitNormIdle /\ InitSetupIdle /\ InitStatsIdle

InitCycleIdle ==
    upstream = [login |-> "none"] /\ InitCoordinator /\ InitMoreIdle

Init ==
    /\ InitClient
    /\ InitLedgersIdle
    /\ InitTariffsIdle
    /\ InitSession
    /\ InitCycleIdle

(***************************************************************************)
(* TokenManager                                                            *)
(***************************************************************************)
\* (variant: the token is stored and the expiry is left as it was)
set_token_only(s, tok) == [s EXCEPT !.token = Some(tok), !.set_at = s.now]

\* TokenManager.set_token
set_token(s, tok) ==
    [s EXCEPT !.token = Some(tok),
              !.expiry = Some(SetTokenExpiry(tok, s.now)),
              !.set_at = s.now]

\* (variant: the rejected token is kept)
clear_keeps_token(s) == s

\* TokenManager.clear
clear(s) == [s EXCEPT !.token = None, !.expiry = None]

\* TokenManager.is_valid read in state s
is_valid(s) == IsValidAt(s.token, s.expiry, s.now)

(***************************************************************************)
(* The TokenManager on its own: set_token with every kind of token, clear, *)
(* and a clock that jumps by one second or to just before the end of the   *)
(* fallback lifetime.                                                      *)
(***************************************************************************)
TMExps == {0, T0 + TOKEN_EXPIRY_BUFFER, T0 + TOKEN_EXPIRY_BUFFER + 1,
           T0 + TOKEN_EXPIRY_BUFFER + 2}
TMTokens ==
    {Token(0, "jwt", e) : e \in TMExps}
        \cup {Token(0, "noexp", 0), Token(0, "malformed", 0)}
TMJumps == {1, DEFAULT_LIFETIME - TOKEN_EXPIRY_BUFFER - 1}

TM_SetToken(tok) ==
    /\ tok \in TMTokens
    /\ Commit(set_token(S, tok))

TM_Clear ==
    /\ ticks <= MaxTicks
    /\ Commit(clear(S))

TM_Tick(d) ==
    /\ ticks < MaxTicks
    /\ Commit([S EXCEPT !.now = @ + d, !.ticks = @ + 1])

NextTM ==
    \/ \E tok \in TMTokens : TM_SetToken(tok)
    \/ TM_Clear
    \/ \E d \in TMJumps : TM_Tick(d)

SpecTM == Init /\ [][NextTM]_vars

(***************************************************************************)
(* What the server and the network may answer.                             *)
(***************************************************************************)
\* how one POST attempt of _async_execute ends
\*   "ok"               status 200 and response.json() returns the body
\*   "non200"           any other status
\*   "client_error"     aiohttp.ClientError raised by the request
\*   "timeout"          TimeoutError
\*   "bad_content_type" status 200, response.json() raises ContentTypeError
\*                      (an aiohttp.ClientError)
\*   "bad_json"         status 200, response.json() raises JSONDecodeError
\*                      (a ValueError, not an aiohttp.ClientError)
AttemptOutcomes ==
    {"ok", "non200", "client_error", "timeout", "bad_content_type", "bad_json"}

\* the outcomes the "except (aiohttp.ClientError, TimeoutError)" clause catches
CaughtErrors == {"client_error", "timeout", "bad_content_type"}

\* A JSON member is "absent", "null" or present ("obj", "str", "list").
\* The login responses, by the shape authenticate() looks at:
\*   data     the member "data"
\*   okt      the member "obtainKrakenToken" of data (when data is an object)
\*   tok      the member "token" of obtainKrakenToken (when that is an object)
\*   errors   the member "errors"
LoginBody(d, o, k, e) == [data |-> d, okt |-> o, tok |-> k, errors |-> e]

LoginBodies ==
    [ token        |-> LoginBody("obj", "obj", "str", "absent"),
      empty        |-> LoginBody("absent", "absent", "absent", "absent"),
      no_token     |-> LoginBody("obj", "obj", "absent", "absent"),
      errors_only  |-> LoginBody("absent", "absent", "absent", "list"),
      null_token   |-> LoginBody("obj", "obj", "null", "list"),
      null_okt     |-> LoginBody("obj", "null", "absent", "list"),
      null_data    |-> LoginBody("null", "absent", "absent", "list") ]

LoginBodyIds == DOMAIN LoginBodies

\* the login responses that carry no token: every one of them is a failed login
FailingLoginBodyIds == LoginBodyIds \ {"token"}

\* "not result" for a login body: only the empty object {} is falsy
LoginBodyFalsy(b) == b.data = "absent" /\ b.errors = "absent"

\* result.get("data", {}).get("obtainKrakenToken", {}).get("token"):
\* dict.get returns the default only for an absent key; a key present with
\* null gives None, and None.get raises AttributeError.
\*   "raise"  AttributeError, "none"  no (or a null) token, "token"  a token
ExtractLoginToken(b) ==
    IF b.data = "null" THEN "raise"
    ELSE IF b.data = "absent" THEN "none"
    ELSE IF b.okt = "null" THEN "raise"
    ELSE IF b.okt = "absent" THEN "none"
    ELSE IF b.tok = "str" THEN "token"
    ELSE "none"

\* the tokens a successful login may carry: one whose exp claim is inside the
\* expiry buffer from the start, one that stays usable for ShortLife seconds,
\* one without an exp claim
ServerTokenKinds == {"expiring", "short", "noexp"}

\* the token of kind k issued at instant t by login number i
ServerToken(k, i, t) ==
    IF k = "expiring" THEN Token(i, "jwt", t + TOKEN_EXPIRY_BUFFER)
    ELSE IF k = "short" THEN Token(i, "jwt", t + TOKEN_EXPIRY_BUFFER + ShortLife)
    ELSE Token(i, "noexp", 0)

\* Error messages, as sequences of characters.
MsgJwtExpired ==
    <<"J","W","T"," ","h","a","s"," ","E","x","p","i","r","e","d">>
MsgUnauthorized == <<"U","n","a","u","t","h","o","r","i","z","e","d">>
MsgNotFound == <<"N","o","t"," ","f","o","u","n","d">>

\* The responses to a data query, by what _execute_with_auth and
\* get_account_data look at:
\*   errors   None when the member "errors" is absent, else Some(the list of
\*            error objects); an error object is None when it has no
\*            "message", else Some(message); the message that is JSON null
\*            is NullMessage
\*   account  the member data.account is present
\*   empty    the body is the empty object {}
NullMessage == <<"null">>

QueryBodies ==
    [ data         |-> [errors |-> None, account |-> TRUE, empty |-> FALSE],
      no_account   |-> [errors |-> None, account |-> FALSE, empty |-> FALSE],
      jwt_expired  |-> [errors |-> Some(<<Some(MsgJwtExpired)>>),
                        account |-> FALSE, empty |-> FALSE],
      unauthorized |-> [errors |-> Some(<<None, Some(MsgUnauthorized)>>),
                        account |-> FALSE, empty |-> FALSE],
      not_found    |-> [errors |-> Some(<<Some(MsgNotFound), None>>),
                        account |-> TRUE, empty |-> FALSE],
      null_message |-> [errors |-> Some(<<Some(NullMessage)>>),
                        account |-> TRUE, empty |-> FALSE],
      empty        |-> [errors |-> None, account |-> FALSE, empty |-> TRUE] ]

QueryBodyIds == DOMAIN QueryBodies

\* str.lower() on the letters the messages use
UpperCase == <<"A","B","C","D","E","F","G","H","I","J","K","L","M",
               "N","O","P","Q","R","S","T","U","V","W","X","Y","Z">>
LowerCase == <<"a","b","c","d","e","f","g","h","i","j","k","l","m",
               "n","o","p","q","r","s","t","u","v","w","x","y","z">>
LowerChar(c) ==
    IF \E i \in 1..26 : UpperCase[i] = c
    THEN LowerCase[CHOOSE i \in 1..26 : UpperCase[i] = c]
    ELSE c
Lower(msg) == [i \in 1..Len(msg) |-> LowerChar(msg[i])]

\* "keyword in msg": msg has keyword as a substring
Contains(msg, keyword) ==
    \E i \in 1..(Len(msg) - Len(keyword) + 1) :
        SubSeq(msg, i, i + Len(keyword) - 1) = keyword

\* auth_keywords = {"authentication", "unauthorized", "token", "expired"}
AuthKeywords ==
    { <<"a","u","t","h","e","n","t","i","c","a","t","i","o","n">>,
      <<"u","n","a","u","t","h","o","r","i","z","e","d">>,
      <<"t","o","k","e","n">>,
      <<"e","x","p","i","r","e","d">> }

\* error_messages = [error.get("message", "").lower() for error in errors]
ErrorMessages(errors) ==
    [i \in 1..Len(errors) |->
        IF errors[i] = None THEN <<>> ELSE Lower(errors[i][1])]

\* is_auth_error = any(keyword in msg for msg in ... for keyword in ...)
IsAuthError(errors) ==
    \E i \in 1..Len(errors) : \E keyword \in AuthKeywords :
        Contains(ErrorMessages(errors)[i], keyword)

\* the check of _execute_with_auth on a body: "errors" in result and
\* is_auth_error (tabulated once for the bodies of the model)
HasAuthError ==
    [b \in QueryBodyIds |->
        QueryBodies[b].errors # None /\ IsAuthError(QueryBodies[b].errors[1])]

\* error.get("message", "").lower() raises AttributeError for a message
\* that is null: get gives the default for an absent key only
MessagesRaise ==
    [b \in QueryBodyIds |->
        /\ QueryBodies[b].errors # None
        /\ \E i \in 1..Len(QueryBodies[b].errors[1]) :
               QueryBodies[b].errors[1][i] = Some(NullMessage)]

\* the data-query bodies that carry an authentication error message
AuthErrorBodyIds == {b \in QueryBodyIds : HasAuthError[b]}

(***************************************************************************)
(* The coroutines.  Each operator below takes the state s and the task t   *)
(* and gives the state in which t next suspends or ends; the statements    *)
(* between two suspension points run without interleaving.                 *)
(***************************************************************************)
Return(v) == [kind |-> "return", val |-> v]
Raise(e) == [kind |-> "raise", val |-> e]

ErrAuthFailed == "RuntimeError: Authentication failed"
ErrEmptyResponse == "RuntimeError: API returned empty response"

\* what _async_execute hands to its caller
XBody(b, tok) == [kind |-> "body", body |-> b, tok |-> tok, exc |-> ""]
XNull == [kind |-> "null", body |-> "", tok |-> Token(0, "noexp", 0), exc |-> ""]
XRaise(e) == [kind |-> "raise", body |-> "", tok |-> Token(0, "noexp", 0), exc |-> e]

\* coordinator._async_update_data and _fetch_all_data around
\* get_account_data: every exception other than UpdateFailed is re-raised as
\* UpdateFailed; a result without data.account gives {} and then
\* UpdateFailed("Missing account_id in API response").  The value is the
\* class of what reaches the host, "account_data" when the cycle goes on.
_async_update_data(r) ==
    IF r.kind = "raise" THEN "UpdateFailed"
    ELSE IF QueryBodies[r.val].account THEN "account_data"
    ELSE "UpdateFailed"

\* task t's entry point ends with r
finish(s, t, r) ==
    [s EXCEPT !.pc[t] = "done",
              !.ret[t] = r,
              !.surfaced[t] =
                  IF s.op[t] = "refresh" THEN _async_update_data(r) ELSE "none"]

\* (variant: the same delay before every retry)
RetryDelayFlat(a) == RETRY_DELAY

\* asyncio.sleep(RETRY_DELAY * (attempt + 1))
RetryDelay(a) == RETRY_DELAY * (a + 1)

\* _async_execute up to its first POST
_async_execute(s, t, c) ==
    [s EXCEPT !.pc[t] = "post",
              !.ctx[t] = c,
              !.attempt[t] = 0,
              !.wake_at[t] = 0,
              !.posts[t] = 1,
              !.outs[t] = <<>>,
              !.waits[t] = <<>>,
              !.xres[t] = "none"]

\* _execute_with_auth: headers = {"Authorization": f"JWT {token}"} and the
\* call of _async_execute with them
_execute_with_auth_send(s, t) ==
    _async_execute(
        [s EXCEPT !.sent[t] = Append(@, TokenId(s.token)),
                  !.sent_valid[t] = Append(@, is_valid(s))],
        t, "query")

\* (variant: the query is sent whatever authenticate() returned)
_execute_with_auth_unchecked(s, t, r) ==
    IF r \in {"True", "False"} THEN _execute_with_auth_send(s, t)
    ELSE finish(s, t, Raise(r))

\* _execute_with_auth after "await self.authenticate()" ended with r
_execute_with_auth_authenticated(s, t, r) ==
    IF r = "True" THEN _execute_with_auth_send(s, t)
    ELSE IF r = "False" THEN finish(s, t, Raise(ErrAuthFailed))
    ELSE finish(s, t, Raise(r))

\* (variant: the lock is released only when authenticate returns True)
authenticate_exit_keeps_lock(s, t, r) ==
    LET s1 == [s EXCEPT !.lock_holder = IF r = "True" THEN 0 ELSE @,
                        !.authres[t][s.retry_count[t] + 1] = r]
    IN  IF s.op[t] = "authenticate"
        THEN finish(s1, t, IF r \in {"True", "False"} THEN Return(r) ELSE Raise(r))
        ELSE _execute_with_auth_authenticated(s1, t, r)

\* authenticate leaves "async with self._auth_lock" with r: "True", "False"
\* or the name of the exception that escapes
authenticate_exit(s, t, r) ==
    LET s1 == [s EXCEPT !.lock_holder = 0,
                        !.authres[t][s.retry_count[t] + 1] = r]
    IN  IF s.op[t] = "authenticate"
        THEN finish(s1, t, IF r \in {"True", "False"} THEN Return(r) ELSE Raise(r))
        ELSE _execute_with_auth_authenticated(s1, t, r)

\* authenticate, inside the lock: the validity check and the login request
authenticate_locked(s, t) ==
    IF is_valid(s) THEN authenticate_exit(s, t, "True")
    ELSE _async_execute(
             [s EXCEPT !.logins = @ + 1, !.mylogins[t] = @ + 1], t, "login")

\* authenticate: "async with self._auth_lock" takes a free lock at once (no
\* suspension) and otherwise queues behind the waiters
authenticate(s, t) ==
    IF s.lock_holder = 0 /\ s.lock_waiters = <<>>
    THEN authenticate_locked([s EXCEPT !.lock_holder = t], t)
    ELSE [s EXCEPT !.pc[t] = "lock_wait",
                   !.lock_waiters = Append(@, t),
                   !.waited_for[t] = s.lock_holder]

\* _execute_with_auth from its first line to the first suspension
_execute_with_auth(s, t) ==
    IF ~is_valid(s) THEN authenticate(s, t) ELSE _execute_with_auth_send(s, t)

\* authenticate after its _async_execute ended with x
authenticate_result(s, t, x) ==
    IF x.kind = "raise" THEN authenticate_exit(s, t, x.exc)
    ELSE IF x.kind = "null"
    THEN authenticate_exit([s EXCEPT !.login_body[t] = "transport_null"], t, "False")
    ELSE LET b == LoginBodies[x.body]
             s1 == [s EXCEPT !.login_body[t] = x.body]
         IN  IF LoginBodyFalsy(b) THEN authenticate_exit(s1, t, "False")
             ELSE IF ExtractLoginToken(b) = "raise"
             THEN authenticate_exit(s1, t, "AttributeError")
             ELSE IF ExtractLoginToken(b) = "none"
             THEN authenticate_exit(s1, t, "False")
             ELSE authenticate_exit(set_token(s1, x.tok), t, "True")

\* (variant: a response with an authentication error is returned at once)
_execute_with_auth_result_no_retry(s, t, x) ==
    IF x.kind = "raise" THEN finish(s, t, Raise(x.exc))
    ELSE IF x.kind = "null" THEN finish(s, t, Raise(ErrEmptyResponse))
    ELSE LET b == QueryBodies[x.body]
             s1 == [s EXCEPT !.resp[t] = Append(@, x.body)]
         IN  IF b.empty THEN finish(s1, t, Raise(ErrEmptyResponse))
             ELSE IF s.retry_count[t] < 1 /\ MessagesRaise[x.body]
             THEN finish(s1, t, Raise("AttributeError"))
             ELSE finish(s1, t, Return(x.body))

\* _execute_with_auth after its _async_execute ended with x
_execute_with_auth_result(s, t, x) ==
    IF x.kind = "raise" THEN finish(s, t, Raise(x.exc))
    ELSE IF x.kind = "null" THEN finish(s, t, Raise(ErrEmptyResponse))
    ELSE LET b == QueryBodies[x.body]
             s1 == [s EXCEPT !.resp[t] = Append(@, x.body)]
         IN  IF b.empty THEN finish(s1, t, Raise(ErrEmptyResponse))
             ELSE IF s.retry_count[t] < 1 /\ MessagesRaise[x.body]
             THEN finish(s1, t, Raise("AttributeError"))
             ELSE IF s.retry_count[t] < 1 /\ HasAuthError[x.body]
             THEN _execute_with_auth(
                      [clear(s1) EXCEPT !.cleared[t] = Append(@, TokenId(s.token)),
                                        !.retry_count[t] = @ + 1], t)
             ELSE finish(s1, t, Return(x.body))

\* _async_execute returns (or raises) x to the coroutine that awaits it
_async_execute_return(s, t, x) ==
    LET s1 == [s EXCEPT !.xres[t] = x.kind]
    IN  IF s.ctx[t] = "login" THEN authenticate_result(s1, t, x)
        ELSE _execute_with_auth_result(s1, t, x)

\* one pass of the loop of _async_execute, from the end of the POST: outcome
\* o, and x the body when o = "ok"
_async_execute_attempt(s, t, o, x) ==
    LET s1 == [s EXCEPT !.outs[t] = Append(@, o)]
    IN  IF o = "ok" THEN _async_execute_return(s1, t, x)
        ELSE IF o = "bad_json"
        THEN _async_execute_return(s1, t, XRaise("JSONDecodeError"))
        ELSE IF s.attempt[t] < MAX_RETRY_ATTEMPTS - 1
        THEN [s1 EXCEPT !.pc[t] = "sleep",
                        !.wake_at[t] = s.now + RetryDelay(s.attempt[t]),
                        !.waits[t] = Append(@, RetryDelay(s.attempt[t]))]
        ELSE _async_execute_return(s1, t, XNull)

\* the sleep ends and the loop makes its next POST
_async_execute_next(s, t) ==
    [s EXCEPT !.pc[t] = "post",
              !.attempt[t] = @ + 1,
              !.posts[t] = @ + 1]

\* asyncio.sleep is over: the clock has reached wake_at (a sleep never ends
\* early) and the loop goes on
_async_execute_slept(s, t) ==
    _async_execute_next(
        [s EXCEPT !.now = IF s.wake_at[t] > @ THEN s.wake_at[t] ELSE @], t)

\* _async_execute from the end of its current POST to its return, fed the
\* outcomes stream of this and the following POSTs: the loop takes as many of
\* them as it makes attempts
RECURSIVE _async_execute_run(_, _, _)
_async_execute_run(s, t, stream) ==
    IF stream = <<>> THEN s
    ELSE LET s1 == _async_execute_attempt(s, t, Head(stream).o, Head(stream).x)
         IN  IF s1.pc[t] = "sleep"
             THEN _async_execute_run(_async_execute_slept(s1, t), t, Tail(stream))
             ELSE s1

\* n POSTs that end in f, then one that ends in o with x
Outcomes(n, f, o, x) ==
    [i \in 1..(n + 1) |->
        IF i <= n THEN [o |-> f, x |-> XNull] ELSE [o |-> o, x |-> x]]

\* the outcomes after which the loop tries again
RetriedOutcomes == AttemptOutcomes \ {"ok", "bad_json"}

\* The retried outcomes differ only in the history of the call, which Spec
\* drops: one of them stands for all.
NetworkDown == {"timeout"}

\* How authenticate and _execute_with_auth treat each single response is
\* SpecExec's matter, which offers every response of the model.  Spec offers
\* one response for each way they go on: a login that succeeds, fails or
\* raises; a data query that is answered with data or with an
\* authentication error (or, by the network, not at all).
SomeLoginBodyIds == {"token", "no_token", "null_okt"}
SomeQueryBodyIds == {"data", "jwt_expired"}
SomeTokenKinds == {"short", "noexp"}

\* the history of the finished call is dropped
forget_call(s, t) ==
    [s EXCEPT !.posts[t] = 0, !.outs[t] = <<>>, !.waits[t] = <<>>,
              !.xres[t] = "none",
              !.wake_at[t] = IF s.pc[t] = "sleep" THEN @ ELSE 0]

(***************************************************************************)
(* Actions.                                                                *)
(***************************************************************************)
Ops == {"authenticate", "refresh"}

\* a task calls authenticate() (setup, config flow) or starts a refresh
\* cycle (coordinator -> get_account_data -> _execute_with_auth)
Start(t, o) ==
    /\ pc[t] = "idle"
    /\ LET s0 == [S EXCEPT !.op[t] = o]
       IN  Commit(IF o = "authenticate" THEN authenticate(s0, t)
                  ELSE _execute_with_auth(s0, t))

\* the lock was released and its oldest waiter resumes inside the lock
LockAcquired(t) ==
    /\ pc[t] = "lock_wait"
    /\ lock_holder = 0
    /\ lock_waiters # <<>>
    /\ Head(lock_waiters) = t
    /\ Commit(authenticate_locked(
           [S EXCEPT !.lock_holder = t, !.lock_waiters = Tail(@)], t))

\* The clock is read by is_valid, set_token and asyncio.sleep only: a second
\* passes while a task sleeps or while a usable token nears its expiry.
TimeMatters ==
    \/ \E t \in Tasks : pc[t] = "sleep" /\ wake_at[t] > now
    \/ IsValid /\ expiry[1] - TOKEN_EXPIRY_BUFFER <= T0 + MaxElapsed

Tick ==
    /\ now < T0 + MaxElapsed
    /\ TimeMatters
    /\ Commit([S EXCEPT !.now = @ + 1])

(***************************************************************************)
(* SpecExec: one task, every POST and every sleep of _async_execute a step *)
(* of its own, the sleeps timed by the clock.                              *)
(***************************************************************************)
\* a POST of the login mutation is answered with status 200 and body b
\* (with a token of kind k when b carries one)
LoginAnswered(t, b, k) ==
    /\ pc[t] = "post"
    /\ ctx[t] = "login"
    /\ b = "token" \/ k = "noexp"
    /\ Commit(_async_execute_attempt(
           S, t, "ok", XBody(b, ServerToken(k, logins, now))))

\* a POST of a data query is answered with status 200 and body b
QueryAnswered(t, b) ==
    /\ pc[t] = "post"
    /\ ctx[t] = "query"
    /\ Commit(_async_execute_attempt(S, t, "ok", XBody(b, Token(0, "noexp", 0))))

\* a POST ends in any other way
PostFailed(t, o) ==
    /\ pc[t] = "post"
    /\ o # "ok"
    /\ Commit(_async_execute_attempt(S, t, o, XNull))

\* asyncio.sleep returns once the clock has reached its end
Wake(t) ==
    /\ pc[t] = "sleep"
    /\ now >= wake_at[t]
    /\ Commit(_async_execute_slept(S, t))

ExecTasks == {1}

NextExec ==
    \/ \E t \in ExecTasks, o \in Ops : Start(t, o)
    \/ \E t \in ExecTasks, b \in LoginBodyIds, k \in ServerTokenKinds :
           LoginAnswered(t, b, k)
    \/ \E t \in ExecTasks, b \in QueryBodyIds : QueryAnswered(t, b)
    \/ \E t \in ExecTasks, o \in AttemptOutcomes : PostFailed(t, o)
    \/ \E t \in ExecTasks : Wake(t)
    \/ Tick

SpecExec == Init /\ [][NextExec]_vars

(***************************************************************************)
(* Spec: NumTasks tasks on one client.  The loop of _async_execute reads   *)
(* and writes nothing the other tasks use (token, expiry and lock are      *)
(* touched by its callers only), so here the POSTs and sleeps of one call  *)
(* that follow its first suspension are taken in one step: the call stays  *)
(* suspended, the other tasks run, and then it completes.                  *)
(***************************************************************************)
\* the login request of t completes: n POSTs end in f, then one is answered
\* with body b (with a token of kind k when b carries one)
LoginCompleted(t, n, f, b, k) ==
    /\ pc[t] = "post"
    /\ ctx[t] = "login"
    /\ b = "token" \/ k = "noexp"
    /\ n = 0 \/ now + RetryDelay(0) <= T0 + MaxElapsed
    /\ Commit(forget_call(
           _async_execute_run(
               S, t, Outcomes(n, f, "ok", XBody(b, ServerToken(k, logins, now)))),
           t))

\* the data query of t completes: n POSTs end in f, then one is answered
\* with body b
QueryCompleted(t, n, f, b) ==
    /\ pc[t] = "post"
    /\ ctx[t] = "query"
    /\ n = 0 \/ now + RetryDelay(0) <= T0 + MaxElapsed
    /\ Commit(forget_call(
           _async_execute_run(
               S, t, Outcomes(n, f, "ok", XBody(b, Token(0, "noexp", 0)))),
           t))

\* the request of t ends with a 200 whose body is not JSON, after n POSTs
\* that end in f
UndecodableAnswer(t, n, f) ==
    /\ pc[t] = "post"
    /\ n = 0 \/ now + RetryDelay(0) <= T0 + MaxElapsed
    /\ Commit(forget_call(
           _async_execute_run(S, t, Outcomes(n, f, "bad_json", XNull)), t))

Next ==
    \/ \E t \in Tasks, o \in Ops : Start(t, o)
    \/ \E t \in Tasks : LockAcquired(t)
    \/ \E t \in Tasks, n \in 0..MaxFailures, f \in NetworkDown,
          b \in SomeLoginBodyIds, k \in SomeTokenKinds :
           LoginCompleted(t, n, f, b, k)
    \/ \E t \in Tasks, n \in 0..MaxFailures, f \in NetworkDown,
          b \in SomeQueryBodyIds :
           QueryCompleted(t, n, f, b)
    \/ \E t \in Tasks, n \in 0..MaxFailures, f \in NetworkDown :
           UndecodableAnswer(t, n, f)
    \/ Tick

Spec == Init /\ [][Next]_vars

(***************************************************************************)
(* Properties of the TokenManager (SpecTM).                                *)
(***************************************************************************)
\* the exp claim of the stored token is one set_token uses: the token is a
\* JWT with a numeric, non-zero exp ("if exp := decoded.get("exp")" takes an
\* exp of 0 for a missing one, and C10's fallback applies to it)
HasDecodableExpiry ==
    token # None /\ token[1].kind = "jwt" /\ token[1].exp # 0

C10_FallbackLifetime ==
    (token # None /\ ~HasDecodableExpiry) =>
        /\ expiry = Some(set_at + 3600)
        /\ IsValid <=> now < (set_at + 3600) - 60

\* C10 witness: a malformed token at the last instant at which the fallback
\* lifetime keeps it valid, and one second after a later set_token
C10_Witness_Fallback ==
    /\ token # None
    /\ token[1].kind = "malformed"
    /\ now = set_at + 3600 - 60 - 1
    /\ set_at > T0
    /\ IsValid

C8_NeverRaises ==
    \A t \in Tasks : xres[t] # "raise"

\* C4: after every failing login outcome authenticate() has returned false
\* without raising, and no token was set.
C4_FailedLoginReturnsFalse ==
    \A t \in Tasks :
        login_body[t] \in FailingLoginBodyIds \cup {"transport_null"} =>
            /\ authres[t][retry_count[t] + 1] = "False"
            /\ logins = 1 => token = None /\ expiry = None

C1_OneLoginForConcurrentAuthenticate ==
    \A u \in Tasks :
        LET t == waited_for[u]
        IN  (/\ t # 0
             /\ op[u] = "authenticate" /\ op[t] = "authenticate"
             /\ pc[u] = "done" /\ pc[t] = "done"
             /\ now = T0) =>
                /\ mylogins[u] = 0
                /\ ret[u] = ret[t]

\* C2: when two callers of _execute_with_auth sent their query with the same
\* token and each got an authentication error for it, exactly one login is
\* performed in total: the token one caller's re-login obtained is reused by
\* the other and is not cleared and fetched again.
C2_OneLoginForConcurrentDetections ==
    \A t, u \in Tasks :
        (/\ t # u
         /\ op[t] = "refresh" /\ op[u] = "refresh"
         /\ retry_count[t] = 1 /\ retry_count[u] = 1
         /\ sent[t][1] = sent[u][1]
         /\ sent[t][1] # 0
         /\ authres[t][2] \in {"none", "True"}
         /\ authres[u][2] \in {"none", "True"}
         /\ pc[t] = "done" /\ pc[u] = "done"
         /\ now = T0) =>
            /\ logins = sent[t][1] + 1
            /\ cleared[t][1] = sent[t][1]
            /\ cleared[u][1] \in {sent[t][1], 0}

\* C5: if the token is invalid when _execute_with_auth starts, or after it
\* was cleared for the retry, and authenticate() returns false, the call
\* fails with the authentication error and the data query is not sent in
\* that attempt.
C5_FailFastWhenLoginFails ==
    \A t \in Tasks : \A d \in 1..2 :
        (op[t] = "refresh" /\ authres[t][d] = "False") =>
            /\ pc[t] = "done"
            /\ ret[t] = Raise(ErrAuthFailed)
            /\ Len(sent[t]) = d - 1
            /\ retry_count[t] = d - 1

\* C5 witness: one refresh failed at its first login, the other at the
\* re-login after the token was cleared
C5_Witness_BothAttempts ==
    \E t, u \in Tasks :
        /\ op[t] = "refresh" /\ op[u] = "refresh"
        /\ authres[t][1] = "False"
        /\ sent[t] = <<>>
        /\ authres[u][2] = "False"
        /\ Len(sent[u]) = 1
        /\ ret[t] = Raise(ErrAuthFailed)
        /\ ret[u] = Raise(ErrAuthFailed)

\* C6: a refresh that fails because no valid token can be obtained reaches
\* the host as an error distinguishable from a transient failure (empty
\* transport response, other exceptions).
C6_AuthFailureDistinctAtHost ==
    \A t, u \in Tasks :
        (/\ op[t] = "refresh" /\ op[u] = "refresh"
         /\ ret[t] = Raise(ErrAuthFailed)
         /\ ret[u].kind = "raise"
         /\ ret[u] # Raise(ErrAuthFailed)) =>
            surfaced[t] # surfaced[u]

\* C20: whenever _execute_with_auth sends a data query, the token in the
\* Authorization header is non-null and satisfies is_valid at that moment,
\* also when it was just obtained by a login that authenticate() reported as
\* successful.
C20_SentTokenIsValid ==
    \A t \in Tasks : \A i \in 1..Len(sent[t]) :
        sent[t][i] # 0 /\ sent_valid[t][i]

(***************************************************************************)
(* _extract_tariffs: the consumption rates (lines 638-663).  A price is    *)
(* kept in units of 0.00001 EUR, so that a provider value of 17.401 cents  *)
(* is Num(17401); Bad is a value float() rejects (ValueError or            *)
(* TypeError), Absent a missing key, for which rate.get(..., 0) gives 0.   *)
(***************************************************************************)
MaxRates == 3

Num(n) == [tag |-> "num", v |-> n]
Bad == [tag |-> "bad", v |-> 0]
Absent == [tag |-> "absent", v |-> 0]

RawPricesHT == {Absent, Num(14000), Num(15000)}
RawPricesTTC == {Bad, Num(17401), Num(17404), Num(25000)}

\* the node of one consumptionRates edge
RateNode(ht, ttc) ==
    [pricePerUnit |-> ht, pricePerUnitWithTaxes |-> ttc,
     currency |-> "EUR", unitType |-> "kWh"]

RateNodes == {RateNode(h, c) : h \in RawPricesHT, c \in RawPricesTTC}

\* the lists of at most MaxRates rate nodes
RateLists == UNION {[1..n -> RateNodes] : n \in 0..MaxRates}

\* float(x) succeeds
Parsable(raw) == raw.tag # "bad"

\* round(float(rate.get(key, 0)) / 100, 4), in units of 0.0001 EUR (no raw
\* price of the model lies half way between two of them)
RoundedPrice(raw) == IF raw.tag = "absent" THEN 0 ELSE (raw.v + 5) \div 10

\* the dict appended to consumption_rates for one node
ParsedRate(node) ==
    [price_ht |-> RoundedPrice(node.pricePerUnit),
     price_ttc |-> RoundedPrice(node.pricePerUnitWithTaxes),
     currency |-> node.currency,
     unit_type |-> node.unitType]

\* the loop over the edges: a node whose prices cannot be parsed is skipped
RECURSIVE ParseRates(_)
ParseRates(nodes) ==
    IF nodes = <<>> THEN <<>>
    ELSE LET rest == ParseRates(Tail(nodes))
             node == Head(nodes)
         IN  IF Parsable(node.pricePerUnit) /\ Parsable(node.pricePerUnitWithTaxes)
             THEN <<ParsedRate(node)>> \o rest
             ELSE rest

\* r put into the list sorted by falling price_ttc, behind the entries of
\* the same price
InsertByPrice(sorted, r) ==
    LET k == Cardinality({i \in 1..Len(sorted) : sorted[i].price_ttc >= r.price_ttc})
    IN  SubSeq(sorted, 1, k) \o <<r>> \o SubSeq(sorted, k + 1, Len(sorted))

\* consumption_rates.sort(key=lambda x: x["price_ttc"], reverse=True): the
\* sort is stable, entries of equal price keep the order of the input
RECURSIVE SortByPriceDesc(_)
SortByPriceDesc(rs) ==
    IF rs = <<>> THEN <<>>
    ELSE InsertByPrice(SortByPriceDesc(SubSeq(rs, 1, Len(rs) - 1)), rs[Len(rs)])

\* _extract_tariffs, its "consumption" part; base is None when the key is
\* not set
_extract_tariffs(nodes) ==
    LET consumption_rates == SortByPriceDesc(ParseRates(nodes))
    IN  IF Len(consumption_rates) >= 2
        THEN [heures_pleines |-> Some(consumption_rates[1]),
              heures_creuses |-> Some(consumption_rates[2]),
              base |-> None]
        ELSE IF Len(consumption_rates) = 1
        THEN [heures_pleines |-> None, heures_creuses |-> None,
              base |-> Some(consumption_rates[1])]
        ELSE [heures_pleines |-> None, heures_creuses |-> None, base |-> None]

\* SpecTariffs: _extract_tariffs applied to every list of rate nodes
InitTariffs ==
    /\ InitClient
    /\ InitLedgersIdle
    /\ InitSession
    /\ InitCycleIdle
    /\ rates \in RateLists
    /\ tariffs = None

ExtractTariffs ==
    /\ tariffs = None
    /\ tariffs' = Some(_extract_tariffs(rates))
    /\ UNCHANGED <<tmvars, lockvars, taskvars, histvars, sessvars, cyclevars,
                   morevars, account, ledgers, rates>>

NextTariffs == ExtractTariffs

SpecTariffs == InitTariffs /\ [][NextTariffs]_vars

\* the lists that order the entries of nodes in another way
Reorderings(nodes) ==
    LET n == Len(nodes)
    IN  {[i \in 1..n |-> nodes[f[i]]] :
            f \in {g \in [1..n -> 1..n] : \A i, j \in 1..n : i # j => g[i] # g[j]}}

\* every node of the list is one float() accepts
AllParsable(nodes) ==
    \A i \in 1..Len(nodes) :
        Parsable(nodes[i].pricePerUnit) /\ Parsable(nodes[i].pricePerUnitWithTaxes)

\* C16: for every list of two or more consumption rates and every
\* permutation of it _extract_tariffs returns the same assignment,
\* heures_pleines the rate of the highest tax-included price and
\* heures_creuses that of the second-highest; exactly one rate is returned as
\* base with heures_pleines and heures_creuses null.
C16_TariffsIndependentOfOrder ==
    (tariffs # None /\ AllParsable(rates)) =>
        /\ Len(rates) >= 2 =>
               /\ \A p \in Reorderings(rates) : _extract_tariffs(p) = tariffs[1]
               /\ tariffs[1].heures_pleines # None
               /\ tariffs[1].heures_creuses # None
               /\ \A i \in 1..Len(rates) :
                      RoundedPrice(rates[i].pricePerUnitWithTaxes)
                          <= tariffs[1].heures_pleines[1].price_ttc
        /\ Len(rates) = 1 =>
               tariffs[1] = [heures_pleines |-> None, heures_creuses |-> None,
                             base |-> Some(ParsedRate(rates[1]))]

(***************************************************************************)
(* The "account" object of the composite response, as far as               *)
(* _extract_ledgers and _extract_supply_points read it.                    *)
(***************************************************************************)
MaxMeters == 2
MaxLedgers == 2

\* externalIdentifier of a supply point: a string of digits
Prm1 == <<"1", "4">>
Prm2 == <<"2">>
Prms == {Prm1, Prm2}

\* the node of one supplyPoints edge:
\*   prm      externalIdentifier
\*   util     "elec": meterPoint is an ElectricityMeterPoint (it has the key
\*            meterKind), "gas": a GasMeterPoint (it has the key gasNature)
\*   dstatus  meterPoint.distributorStatus, "absent" when there is no such key
\*   pstatus  meterPoint.poweredStatus
MeterNode(p, u, d, w) == [prm |-> p, util |-> u, dstatus |-> d, pstatus |-> w]

\* distributorStatus == "RESIL" and poweredStatus == "LIMI"
Terminated(mp) == mp.dstatus = "RESIL" /\ mp.pstatus = "LIMI"

\* active_prms of _extract_ledgers
ActivePrms(meters) ==
    {meters[i].prm : i \in {j \in 1..Len(meters) : ~Terminated(meters[j])}}

\* an entry of account.ledgers or of account.creditStorage.ledger
Ledger(ty, nm, nr) == [ledgerType |-> ty, name |-> nm, number |-> nr]

LedgerTypes == {"FRA_ELECTRICITY_LEDGER", "FRA_GAS_LEDGER", "POT_LEDGER"}

\* ledger names: without a meter identifier, or with one in parentheses
PlainName == <<"P", "o", "t">>
NameOf(p) == <<"E", " ", "(">> \o p \o <<")">>
LedgerNames == {PlainName} \cup {NameOf(p) : p \in Prms}

Digits == {"0", "1", "2", "3", "4", "5", "6", "7", "8", "9"}

\* the match of \((\d+)\) that starts at position i of name, if there is one
MatchAt(name, i) ==
    IF name[i] # "(" THEN None
    ELSE LET ends == {j \in (i + 1)..Len(name) : name[j] \notin Digits}
         IN  IF ends = {} THEN None
             ELSE LET j == CHOOSE k \in ends : \A l \in ends : k <= l
                  IN  IF j > i + 1 /\ name[j] = ")"
                      THEN Some(SubSeq(name, i + 1, j - 1))
                      ELSE None

\* re.search(r"\((\d+)\)", name): group 1 of the leftmost match, or None
RegexMeterId(name) ==
    LET starts == {i \in 1..Len(name) : MatchAt(name, i) # None}
    IN  IF starts = {} THEN None
        ELSE MatchAt(name, CHOOSE i \in starts : \A j \in starts : i <= j)

\* ledgers[ledger_type] = entry on a dict kept in insertion order
DictPut(d, e) ==
    IF \E i \in 1..Len(d) : d[i].ledgerType = e.ledgerType
    THEN [i \in 1..Len(d) |-> IF d[i].ledgerType = e.ledgerType THEN e ELSE d[i]]
    ELSE Append(d, e)

HasType(d, ty) == \E i \in 1..Len(d) : d[i].ledgerType = ty

\* the loop over account.ledgers
RECURSIVE PrimaryLedgers(_, _, _)
PrimaryLedgers(d, list, active) ==
    IF list = <<>> THEN d
    ELSE LET l == Head(list)
             named == RegexMeterId(l.name)
             skip ==
                 /\ l.ledgerType \in {"FRA_ELECTRICITY_LEDGER", "FRA_GAS_LEDGER"}
                 /\ named # None
                 /\ named[1] \notin active
         IN  PrimaryLedgers(IF skip THEN d ELSE DictPut(d, l), Tail(list), active)

\* the loop over account.creditStorage.ledger
RECURSIVE CreditLedgers(_, _)
CreditLedgers(d, list) ==
    IF list = <<>> THEN d
    ELSE LET l == Head(list)
         IN  CreditLedgers(IF HasType(d, l.ledgerType) THEN d ELSE Append(d, l),
                           Tail(list))

\* _extract_ledgers: the dict it returns, as the list of its items
_extract_ledgers(acc) ==
    CreditLedgers(PrimaryLedgers(<<>>, acc.ledgers, ActivePrms(acc.meters)),
                  acc.credit)

\* (variant: the gas test comes first)
ClassifyGasFirst(mp) ==
    IF mp.util = "gas" THEN "gas"
    ELSE IF mp.util = "elec" \/ mp.dstatus # "absent" THEN "electricity"
    ELSE "none"

\* the supply-point list _extract_supply_points puts a meter point into
\* ("none" for neither): the electricity test comes first and looks at the
\* keys of the meter point only
Classify(mp) ==
    IF mp.util = "elec" \/ mp.dstatus # "absent" THEN "electricity"
    ELSE IF mp.util = "gas" THEN "gas"
    ELSE "none"

\* _extract_supply_points
_extract_supply_points(meters) ==
    [electricity |-> SelectSeq(meters, LAMBDA mp : Classify(mp) = "electricity"),
     gas |-> SelectSeq(meters, LAMBDA mp : Classify(mp) = "gas")]

\* SpecLedgers: _extract_ledgers applied to every account of the bounds
LedgerMeterNodes ==
    {MeterNode(p, "elec", d, w) :
        p \in Prms, d \in {"RESIL", "SERVC"}, w \in {"LIMI", "ON"}}
LedgerEntries == {Ledger(ty, nm, "L") : ty \in LedgerTypes, nm \in LedgerNames}

SeqsUpTo(set, n) == UNION {[1..k -> set] : k \in 0..n}

LedgerAccounts ==
    [meters : SeqsUpTo(LedgerMeterNodes, MaxMeters),
     ledgers : SeqsUpTo(LedgerEntries, MaxLedgers),
     credit : SeqsUpTo(LedgerEntries, 1)]

InitLedgers ==
    /\ InitClient
    /\ InitTariffsIdle
    /\ InitSession
    /\ InitCycleIdle
    /\ account \in LedgerAccounts
    /\ ledgers = None

ExtractLedgers ==
    /\ ledgers = None
    /\ ledgers' = Some(_extract_ledgers(account))
    /\ UNCHANGED <<tmvars, lockvars, taskvars, histvars, sessvars, cyclevars,
                   morevars, account, rates, tariffs>>

NextLedgers == ExtractLedgers

SpecLedgers == InitLedgers /\ [][NextLedgers]_vars

\* C15: the map returned by _extract_ledgers contains no ledger whose name
\* embeds a meter identifier "(digits)" that is not the identifier of an
\* active supply point, whether the ledger came from the primary list or
\* from credit storage; a ledger that names an active meter is included.
C15_NoLedgerOfInactiveMeter ==
    ledgers # None =>
        /\ \A i \in 1..Len(ledgers[1]) :
               LET named == RegexMeterId(ledgers[1][i].name)
               IN  named # None => named[1] \in ActivePrms(account.meters)
        /\ \A i \in 1..Len(account.ledgers) :
               LET named == RegexMeterId(account.ledgers[i].name)
               IN  (named # None /\ named[1] \in ActivePrms(account.meters)) =>
                       HasType(ledgers[1], account.ledgers[i].ledgerType)

(***************************************************************************)
(* SpecSession: the HTTP session of one client under requests and close()  *)
(* calls.  _ensure_session has no await that suspends: it runs with the    *)
(* first POST of its _async_execute call.  "await self._session.close()"   *)
(* marks the session closed at once and then either returns without        *)
(* suspending or waits for the connections of the session to close, the    *)
(* event loop running other tasks meanwhile; "self._session = None"        *)
(* follows when it returns.                                                *)
(***************************************************************************)
MaxSessions == 3
MaxCloses == 2

clientvars ==
    <<tmvars, lockvars, taskvars, histvars, purevars, cyclevars, morevars>>

\* session.closed
SessionClosed(sid) == sid \notin open_sessions

\* a request starts: _ensure_session, then the first session.post
RequestStart(r) ==
    /\ rpc[r] = "idle"
    /\ IF session = 0 \/ SessionClosed(session)
       THEN /\ created < MaxSessions
            /\ created' = created + 1
            /\ session' = created + 1
            /\ open_sessions' = open_sessions \cup {created + 1}
       ELSE UNCHANGED <<created, session, open_sessions>>
    /\ rpc' = [rpc EXCEPT ![r] = "post"]
    /\ rsess' = [rsess EXCEPT ![r] = session']
    /\ rres' = [rres EXCEPT ![r] = "none"]
    /\ UNCHANGED <<cpc, closes, clientvars>>

\* the POST ends with status 200: _async_execute returns the body
PostAnswered(r) ==
    /\ rpc[r] = "post"
    /\ ~SessionClosed(rsess[r])
    /\ rpc' = [rpc EXCEPT ![r] = "idle"]
    /\ rres' = [rres EXCEPT ![r] = "body"]
    /\ UNCHANGED <<session, open_sessions, created, rsess, cpc, closes, clientvars>>

\* the POST fails (always so once its session is closed); last is whether
\* it was the last attempt of the call, which then returns null, or a sleep
\* and another attempt follow
PostFails(r, last) ==
    /\ rpc[r] = "post"
    /\ rpc' = [rpc EXCEPT ![r] = IF last THEN "idle" ELSE "sleep"]
    /\ rres' = [rres EXCEPT ![r] = IF last THEN "null" ELSE "none"]
    /\ UNCHANGED <<session, open_sessions, created, rsess, cpc, closes, clientvars>>

\* the next attempt of the loop: self._session.post(...) on whatever
\* self._session is by now (None: AttributeError; a closed session:
\* RuntimeError("Session is closed"); neither is caught)
NextAttempt(r) ==
    /\ rpc[r] = "sleep"
    /\ IF session = 0 \/ SessionClosed(session)
       THEN /\ rpc' = [rpc EXCEPT ![r] = "idle"]
            /\ rres' = [rres EXCEPT ![r] = "raise"]
            /\ UNCHANGED rsess
       ELSE /\ rpc' = [rpc EXCEPT ![r] = "post"]
            /\ rsess' = [rsess EXCEPT ![r] = session]
            /\ UNCHANGED rres
    /\ UNCHANGED <<session, open_sessions, created, cpc, closes, clientvars>>

\* close() is called; suspends is whether "await self._session.close()"
\* gives up control before it returns
CloseStart(suspends) ==
    /\ cpc = "idle"
    /\ closes < MaxCloses
    /\ closes' = closes + 1
    /\ IF session # 0 /\ ~SessionClosed(session)
       THEN /\ open_sessions' = open_sessions \ {session}
            /\ IF suspends
               THEN cpc' = "closing" /\ UNCHANGED session
               ELSE session' = 0 /\ UNCHANGED cpc
       ELSE UNCHANGED <<session, open_sessions, cpc>>
    /\ UNCHANGED <<created, rpc, rsess, rres, clientvars>>

\* "await self._session.close()" is over: self._session = None, and close()
\* returns
CloseEnd ==
    /\ cpc = "closing"
    /\ cpc' = "idle"
    /\ session' = 0
    /\ UNCHANGED <<open_sessions, created, rpc, rsess, rres, closes, clientvars>>

NextSession ==
    \/ \E r \in Tasks : RequestStart(r)
    \/ \E r \in Tasks : PostAnswered(r)
    \/ \E r \in Tasks, last \in BOOLEAN : PostFails(r, last)
    \/ \E r \in Tasks : NextAttempt(r)
    \/ \E suspends \in BOOLEAN : CloseStart(suspends)
    \/ CloseEnd

SpecSession == Init /\ [][NextSession]_vars

\* C18: across any interleaving of requests and close() calls the client
\* has at most one open session at a time: none exists before the first
\* request, a request creates one only if none is open, and no session it
\* opened is left open and unreferenced.
C18_AtMostOneOpenSession ==
    /\ Cardinality(open_sessions) <= 1
    /\ created = 0 => open_sessions = {} /\ session = 0
    /\ \A sid \in open_sessions : sid = session

\* C27: under any interleaving of close() with a request that is in flight
\* or in its retry backoff, no attempt of _async_execute posts on a session
\* that is null or already closed: the request ends with a null result or a
\* completed response, never with an exception.
C27_NoPostOnClosedSession ==
    \A r \in Tasks : rres[r] # "raise"

(***************************************************************************)
(* The refresh cycle: coordinator._fetch_all_data over get_account_data,   *)
(* get_energy_readings, get_electricity_index and get_payment_requests.    *)
(* What the upstream answers to each query of a cycle:                     *)
(*   login    how the login mutation is answered                           *)
(*   account  the account object of the composite response                 *)
(*   elec, index, gas   the answers to the reading and index queries       *)
(*   pay      per ledger number, the answer to the payment-request query   *)
(* An answer "unavailable" is a request no attempt of which gets a 200.    *)
(***************************************************************************)
MaxCycles == 2

\* properties[0].id and account.number of the composite response
PropertyId == "P1"
AccountNumber == "A-1"

\* the account objects of the cycle: present is whether data.account is
\* there, malformed whether an edge of supplyPoints has a null node
CycleAccount(pres, id, nr, ms, ls, bad) ==
    [present |-> pres, id |-> id, number |-> nr, meters |-> ms, ledgers |-> ls,
     credit |-> <<>>, malformed |-> bad]

\* Every account has the ledgers of its supply points and a ledger without
\* a number; in one account the two ledgers have the same number.  The meter points are active, terminated (RESIL and LIMI) or
\* have one of the two marks only; the gas meter points come with and without
\* a distributorStatus.
CycleAccounts ==
    LET ElecLedger == Ledger("FRA_ELECTRICITY_LEDGER", NameOf(Prm1), "L1")
        GasLedger == Ledger("FRA_GAS_LEDGER", NameOf(Prm2), "L2")
        PotLedger == Ledger("POT_LEDGER", PlainName, "")
        BothLedgers == <<ElecLedger, PotLedger, GasLedger>>
        GasLedgerSameNumber == Ledger("FRA_GAS_LEDGER", NameOf(Prm2), "L1")
        ElecActive == MeterNode(Prm1, "elec", "SERVC", "ON")
        ElecTerminated == MeterNode(Prm1, "elec", "RESIL", "LIMI")
        ElecResilOnly == MeterNode(Prm1, "elec", "RESIL", "ON")
        ElecSecond == MeterNode(Prm2, "elec", "SERVC", "ON")
        GasActive == MeterNode(Prm2, "gas", "absent", "ON")
        GasLimiOnly == MeterNode(Prm2, "gas", "absent", "LIMI")
        GasResilOnly == MeterNode(Prm2, "gas", "RESIL", "ON")
        GasTerminated == MeterNode(Prm2, "gas", "RESIL", "LIMI")
    IN  { CycleAccount(TRUE, PropertyId, AccountNumber,
                       <<ElecActive, GasActive>>, BothLedgers, FALSE),
          CycleAccount(TRUE, PropertyId, AccountNumber,
                       <<ElecActive, GasActive>>,
                       <<ElecLedger, GasLedgerSameNumber>>, FALSE),
          CycleAccount(TRUE, PropertyId, AccountNumber,
                       <<ElecActive, GasTerminated>>, BothLedgers, FALSE),
          CycleAccount(TRUE, PropertyId, AccountNumber,
                       <<ElecTerminated, GasActive>>, BothLedgers, FALSE),
          CycleAccount(TRUE, PropertyId, AccountNumber,
                       <<ElecResilOnly, GasLimiOnly>>, BothLedgers, FALSE),
          CycleAccount(TRUE, PropertyId, AccountNumber,
                       <<GasResilOnly>>, <<GasLedger>>, FALSE),
          CycleAccount(TRUE, PropertyId, AccountNumber,
                       <<ElecTerminated, ElecSecond>>, <<ElecLedger>>, FALSE),
          CycleAccount(TRUE, "", AccountNumber, <<>>, <<PotLedger>>, FALSE),
          CycleAccount(TRUE, PropertyId, "", <<ElecActive>>, <<ElecLedger>>, FALSE),
          CycleAccount(FALSE, "", "", <<>>, <<>>, FALSE),
          CycleAccount(TRUE, PropertyId, AccountNumber,
                       <<ElecActive>>, <<ElecLedger>>, TRUE) }

\* the upstreams of the cycles: a login that gives a token without exp, one
\* that gives a token already inside the expiry buffer, one that gives
\* none; each query answered well, with a malformed or an empty list, or
\* not at all
Upstreams ==
    [login : { [body |-> "token", kind |-> "noexp"],
               [body |-> "token", kind |-> "expiring"],
               [body |-> "no_token", kind |-> "noexp"] },
     account : CycleAccounts,
     elec : {"readings", "malformed", "unavailable"},
     index : {"index", "no_edges", "unavailable"},
     gas : {"readings", "unavailable"},
     pay : [{"L1", "L2"} -> {"request", "no_edges", "malformed"}]]

\* get_account_data after its _execute_with_auth ended with r, for the
\* account object acc of the response
get_account_data(r, acc) ==
    IF r.kind = "raise" THEN r
    ELSE IF ~QueryBodies[r.val].account THEN Return(NoData)
    ELSE IF acc.malformed THEN Raise("AttributeError")
    ELSE Return([NoData EXCEPT
                    !.account_id = acc.id,
                    !.account_number = acc.number,
                    !.ledgers = _extract_ledgers(acc),
                    !.supply_points = _extract_supply_points(acc.meters)])

\* get_energy_readings after its _execute_with_auth ended with r: the list
\* of nodes; edge["node"] raises KeyError for an edge without node; a
\* response without data.property.measurements gives the empty list
get_energy_readings(r, answer, meter) ==
    IF r.kind = "raise" THEN r
    ELSE IF r.val # "data" THEN Return(<<>>)
    ELSE IF answer = "malformed" THEN Raise("KeyError")
    ELSE Return(<<[reading_of |-> meter]>>)

\* get_electricity_index after its _execute_with_auth ended with r: None
\* when there are no edges
get_electricity_index(r, answer, meter) ==
    IF r.kind = "raise" THEN r
    ELSE IF r.val # "data" \/ answer = "no_edges" THEN Return(None)
    ELSE Return(Some([index_of |-> meter]))

\* get_payment_requests after its _execute_with_auth ended with r: None
\* when there are no edges; edges[0].get raises AttributeError when the
\* edge is null
get_payment_requests(r, answer, number) ==
    IF r.kind = "raise" THEN r
    ELSE IF r.val # "data" \/ answer = "no_edges" THEN Return(None)
    ELSE IF answer = "malformed" THEN Raise("AttributeError")
    ELSE Return(Some([request_of |-> number]))

\* (variant: only the account id is required)
MissingEssentialsIdOnly(ad) == ad.account_id = ""

\* _fetch_all_data, lines 59-62: the essentials that must be there
MissingEssentials(ad) == ad.account_id = "" \/ ad.account_number = ""

\* _fetch_all_data, lines 65-72: the electricity supply points without the
\* terminated ones
FilterTerminated(sps) ==
    [sps EXCEPT !.electricity = SelectSeq(@, LAMBDA mp : ~Terminated(mp))]

\* electricity_supply_points[0]["id"] if electricity_supply_points else None
FirstMeter(list) == IF list = <<>> THEN None ELSE Some(list[1].prm)

\* the items of ledgers that have a number, in the order of the dict
WithNumber(ls) == SelectSeq(ls, LAMBDA l : l.number # "")


(***************************************************************************)
(* The calls of a cycle run one after the other on one task of the client; *)
(* nothing else uses the client while a cycle runs.                        *)
(***************************************************************************)
CycleTask == 1

\* a new call of _execute_with_auth: a fresh frame, retry_count = 0
new_call(s) ==
    [forget_call(s, CycleTask) EXCEPT
        !.pc[CycleTask] = "idle", !.op[CycleTask] = "cycle",
        !.ctx[CycleTask] = "none", !.attempt[CycleTask] = 0,
        !.retry_count[CycleTask] = 0, !.wake_at[CycleTask] = 0,
        !.mylogins[CycleTask] = 0, !.waited_for[CycleTask] = 0,
        !.login_body[CycleTask] = "none",
        !.authres[CycleTask] = <<"none", "none">>,
        !.sent[CycleTask] = <<>>, !.sent_valid[CycleTask] = <<>>,
        !.resp[CycleTask] = <<>>, !.cleared[CycleTask] = <<>>,
        !.ret[CycleTask] = NoRet, !.surfaced[CycleTask] = "none"]

\* the POSTs of the pending request of the call for query q and how they
\* end: the login is answered as upstream.login says; no attempt of an
\* unavailable query gets a 200; a query sent with a revoked token is
\* answered with an authentication error
ServerOutcomes(s, q) ==
    LET Unavailable ==
            \/ q = "elec_readings" /\ upstream.elec = "unavailable"
            \/ q = "elec_index" /\ upstream.index = "unavailable"
            \/ q = "gas_readings" /\ upstream.gas = "unavailable"
        ServerBody(id) ==
            IF id <= revoked THEN "jwt_expired"
            ELSE IF q = "account" /\ ~upstream.account.present THEN "no_account"
            ELSE "data"
    IN  IF s.ctx[CycleTask] = "login"
        THEN Outcomes(0, "timeout", "ok",
                      XBody(upstream.login.body,
                            ServerToken(upstream.login.kind, s.logins, s.now)))
        ELSE Outcomes(IF Unavailable THEN MAX_RETRY_ATTEMPTS ELSE 0,
                      "timeout", "ok",
                      XBody(ServerBody(s.sent[CycleTask][Len(s.sent[CycleTask])]),
                            Token(0, "noexp", 0)))

\* the call of _execute_with_auth for query q, from its pending request to
\* its end
RECURSIVE CallToEnd(_, _)
CallToEnd(s, q) ==
    IF s.pc[CycleTask] = "done" THEN s
    ELSE CallToEnd(_async_execute_run(s, CycleTask, ServerOutcomes(s, q)), q)

\* "await self._execute_with_auth(query, variables)" for query q
api_call(s, q) == CallToEnd(_execute_with_auth(new_call(s), CycleTask), q)

(***************************************************************************)
(* _fetch_all_data, cut at its awaits.  Each piece takes the locals c of   *)
(* the coroutine and the result r of the call that ended, and gives        *)
(*   c      the locals at the next await or at the end                     *)
(*   issue  the query the coroutine awaits next, None at the end           *)
(*   out    "none" while it runs, "return" or "raise" at its end           *)
(*   exc    the exception of "raise"                                       *)
(***************************************************************************)
Await(c, q, arg) ==
    [c |-> [c EXCEPT !.pos = q], issue |-> Some([q |-> q, arg |-> arg]),
     out |-> "none", exc |-> ""]
Fail(c, e) == [c |-> c, issue |-> None, out |-> "raise", exc |-> e]
Done(c) == [c |-> c, issue |-> None, out |-> "return", exc |-> ""]

\* (variant: the lookups are not awaited, the cycle returns without them)
fetch_payment_next_detached(c) ==
    Done([c EXCEPT !.ad.payment_requests = Some(c.pay)])

\* _fetch_payment_requests at the head of its loop: the next ledger with a
\* number is looked up; after the last one line 154 stores the dict and
\* _fetch_all_data returns
fetch_payment_next(c) ==
    IF c.pending = <<>>
    THEN Done([c EXCEPT !.ad.payment_requests = Some(c.pay)])
    ELSE Await(c, "payment", Head(c.pending).number)

\* (variant: no suppress around the lookup)
after_payment_unsuppressed(c, r) ==
    IF r.kind = "raise" THEN Fail(c, r.val)
    ELSE fetch_payment_next(
             [c EXCEPT !.pending = Tail(@),
                       !.pay = IF r.val # None
                               THEN Append(@, [ledger_type |-> Head(c.pending).ledgerType,
                                               request |-> r.val[1]])
                               ELSE @])

\* the lookup of the ledger at the head of pending ended with r: under
\* suppress(Exception) a raise only skips the ledger
after_payment(c, r) ==
    fetch_payment_next(
        [c EXCEPT !.pending = Tail(@),
                  !.pay = IF r.kind = "return" /\ r.val # None
                          THEN Append(@, [ledger_type |-> Head(c.pending).ledgerType,
                                          request |-> r.val[1]])
                          ELSE @])

\* lines 131-134: account_data["gas"] = gas, then the payment requests
after_gas(c, gas) ==
    fetch_payment_next(
        [c EXCEPT !.ad.gas = Some(gas),
                  !.pending = WithNumber(c.ad.ledgers),
                  !.pay = <<>>])

\* the gas reading query ended with r
after_gas_readings(c, r) ==
    IF r.kind = "raise" THEN Fail(c, r.val) ELSE after_gas(c, r.val)

\* lines 113-129: account_data["electricity"], then the gas readings of the
\* first gas supply point
after_electricity(c, readings, index) ==
    LET c1 == [c EXCEPT !.ad.electricity =
                            Some([readings |-> readings, index |-> index])]
        g == FirstMeter(c.ad.supply_points.gas)
    IN  IF g # None THEN Await(c1, "gas_readings", g[1])
        ELSE after_gas(c1, <<>>)

\* the index query ended with r
after_elec_index(c, r) ==
    IF r.kind = "raise" THEN Fail(c, r.val)
    ELSE after_electricity(c, c.readings, r.val)

\* the electricity reading query ended with r: the index of the same meter
after_elec_readings(c, r) ==
    IF r.kind = "raise" THEN Fail(c, r.val)
    ELSE Await([c EXCEPT !.readings = r.val], "elec_index",
               FirstMeter(c.ad.supply_points.electricity)[1])

\* lines 53-106: get_account_data ended with r
after_account(c, r) ==
    IF r.kind = "raise" THEN Fail(c, r.val)
    ELSE IF MissingEssentials(r.val) THEN Fail(c, "UpdateFailed")
    ELSE LET c1 == [c EXCEPT !.ad = [r.val EXCEPT !.supply_points =
                                                      FilterTerminated(@)]]
             e == FirstMeter(c1.ad.supply_points.electricity)
         IN  IF e # None THEN Await(c1, "elec_readings", e[1])
             ELSE after_electricity(c1, <<>>, None)

\* (variant: the exception of the cycle is passed on as it is)
SurfaceUnwrapped(e) == e

\* _async_update_data, lines 44-49: UpdateFailed passes, every other
\* Exception is raised again as UpdateFailed
Surface(e) == IF e = "UpdateFailed" THEN e ELSE "UpdateFailed"

\* how a refresh ends at the host: with the snapshot, or with the exception
\* error (cause is what _fetch_all_data raised)
Delivered(ad) ==
    [kind |-> "snapshot", snapshot |-> ad, error |-> "", cause |-> ""]
Failed(e, cause) ==
    [kind |-> "failed", snapshot |-> NoData, error |-> e, cause |-> cause]

\* a call of the cycle ended: the client is as s, the coroutine goes on as
\* o says; DataUpdateCoordinator sets data only when _async_update_data
\* returned
CycleStep(s, o) ==
    /\ CommitClient(s)
    /\ cycle' = IF o.out = "none" THEN o.c ELSE IdleCycle
    /\ issued' = IF o.issue = None THEN issued
                 ELSE Append(issued, [cycle |-> Len(results) + 1,
                                      q |-> o.issue[1].q, arg |-> o.issue[1].arg])
    /\ answered' = answered + 1
    /\ data' = IF o.out = "return" THEN Some(o.c.ad) ELSE data
    /\ results' = IF o.out = "return" THEN Append(results, Delivered(o.c.ad))
                  ELSE IF o.out = "raise"
                  THEN Append(results, Failed(Surface(o.exc), o.exc))
                  ELSE results
    /\ UNCHANGED <<upstream, revoked, purevars, sessvars, morevars>>

\* the host calls _async_update_data: get_account_data is awaited
RefreshStart ==
    /\ cycle.pos = "idle"
    /\ Len(results) < MaxCycles
    /\ cycle' = [IdleCycle EXCEPT !.pos = "account"]
    /\ issued' = Append(issued, [cycle |-> Len(results) + 1, q |-> "account",
                                 arg |-> AccountNumber])
    /\ UNCHANGED <<tmvars, lockvars, taskvars, histvars, purevars, sessvars,
                   morevars, upstream, revoked, answered, data, results>>

AccountDone ==
    /\ cycle.pos = "account"
    /\ LET s == api_call(S, "account")
       IN  CycleStep(s, after_account(
                            cycle, get_account_data(s.ret[CycleTask],
                                                    upstream.account)))

ElecReadingsDone ==
    /\ cycle.pos = "elec_readings"
    /\ LET s == api_call(S, "elec_readings")
       IN  CycleStep(s, after_elec_readings(
                            cycle,
                            get_energy_readings(
                                s.ret[CycleTask], upstream.elec,
                                FirstMeter(cycle.ad.supply_points.electricity)[1])))

ElecIndexDone ==
    /\ cycle.pos = "elec_index"
    /\ LET s == api_call(S, "elec_index")
       IN  CycleStep(s, after_elec_index(
                            cycle,
                            get_electricity_index(
                                s.ret[CycleTask], upstream.index,
                                FirstMeter(cycle.ad.supply_points.electricity)[1])))

GasReadingsDone ==
    /\ cycle.pos = "gas_readings"
    /\ LET s == api_call(S, "gas_readings")
       IN  CycleStep(s, after_gas_readings(
                            cycle,
                            get_energy_readings(
                                s.ret[CycleTask], upstream.gas,
                                FirstMeter(cycle.ad.supply_points.gas)[1])))

PaymentDone ==
    /\ cycle.pos = "payment"
    /\ LET s == api_call(S, "payment")
       IN  CycleStep(s, after_payment(
                            cycle,
                            get_payment_requests(
                                s.ret[CycleTask],
                                upstream.pay[Head(cycle.pending).number],
                                Head(cycle.pending).number)))

\* the server stops accepting the tokens it has issued so far (between two
\* calls of the client: a call is answered as the server stands at its end)
Revoke ==
    /\ Len(results) < MaxCycles
    /\ revoked < logins
    /\ revoked' = logins
    /\ UNCHANGED <<tmvars, lockvars, taskvars, histvars, purevars, sessvars,
                   morevars, upstream, cycle, issued, answered, data, results>>

\* between two refreshes the stored token outlives its expiry
TokenAges ==
    /\ cycle.pos = "idle"
    /\ results # <<>>
    /\ IsValid
    /\ Commit([S EXCEPT !.now = @ + DEFAULT_LIFETIME])

InitCycle ==
    /\ InitClient
    /\ InitLedgersIdle
    /\ InitTariffsIdle
    /\ InitSession
    /\ InitCoordinator
    /\ InitMoreIdle
    /\ upstream \in Upstreams

NextCycle ==
    \/ RefreshStart
    \/ AccountDone
    \/ ElecReadingsDone
    \/ ElecIndexDone
    \/ GasReadingsDone
    \/ PaymentDone
    \/ Revoke
    \/ TokenAges

SpecCycle == InitCycle /\ [][NextCycle]_vars

(***************************************************************************)
(* Properties of the refresh cycle (SpecCycle).                            *)
(***************************************************************************)
\* the queries cycle number n has issued
IssuedIn(n) == SelectSeq(issued, LAMBDA e : e.cycle = n)

\* the account object of the response lacks the id or the number
LacksEssentials(acc) == ~acc.present \/ acc.id = "" \/ acc.number = ""

\* C11: when the account response has no account id or no account number,
\* every refresh ends as UpdateFailed and the only query its cycle issues is
\* the account query: no reading, index or payment-request query.
C11_MissingEssentialsFailTheCycle ==
    LacksEssentials(upstream.account) =>
        /\ \A n \in 1..Len(results) :
               results[n].kind = "failed" /\ results[n].error = "UpdateFailed"
        /\ \A i \in 1..Len(issued) : issued[i].q = "account"

\* a refresh got the account response (the call returned a body) without
\* the account number and ended
C11_Witness_NoNumber ==
    /\ upstream.account.present
    /\ upstream.account.id # ""
    /\ upstream.account.number = ""
    /\ Len(results) = 1
    /\ cycle.pos = "idle"
    /\ ret[CycleTask] = Return("data")
    /\ results[1].cause = "UpdateFailed"

\* meter point m is in one of the two supply-point lists sp
InLists(sp, m) ==
    \/ \E i \in 1..Len(sp.electricity) : sp.electricity[i] = m
    \/ \E i \in 1..Len(sp.gas) : sp.gas[i] = m

MeterQueries == {"elec_readings", "elec_index", "gas_readings"}

\* C12: a meter point that is terminated (RESIL and LIMI), electricity or
\* gas, is in neither supply-point list of a delivered snapshot and no
\* reading or index query is issued for it; a meter point with at most one
\* of the two marks is in the lists.  With one active electricity meter and
\* one terminated gas meter the gas list is empty, the electricity list has
\* one entry and no gas reading query is issued.
C12_TerminatedMetersLeftOut ==
    LET ms == upstream.account.meters
        OneElecOneTerminatedGas ==
            ms = <<MeterNode(Prm1, "elec", "SERVC", "ON"),
                   MeterNode(Prm2, "gas", "RESIL", "LIMI")>>
    IN  /\ \A n \in 1..Len(results) :
               results[n].kind = "snapshot" =>
                   /\ \A j \in 1..Len(ms) :
                          Terminated(ms[j]) <=>
                              ~InLists(results[n].snapshot.supply_points, ms[j])
                   /\ OneElecOneTerminatedGas =>
                          /\ results[n].snapshot.supply_points.gas = <<>>
                          /\ Len(results[n].snapshot.supply_points.electricity) = 1
        /\ \A i \in 1..Len(issued) :
               issued[i].q \in MeterQueries =>
                   /\ \A j \in 1..Len(ms) :
                          Terminated(ms[j]) => issued[i].arg # ms[j].prm
                   /\ OneElecOneTerminatedGas => issued[i].q # "gas_readings"

\* a snapshot was delivered for one active electricity meter and one
\* terminated gas meter, after the readings and the index of the
\* electricity meter were queried
C12_Witness_TerminatedGas ==
    /\ upstream.account.meters = <<MeterNode(Prm1, "elec", "SERVC", "ON"),
                                   MeterNode(Prm2, "gas", "RESIL", "LIMI")>>
    /\ Len(results) = 1
    /\ results[1].kind = "snapshot"
    /\ results[1].snapshot.supply_points.gas = <<>>
    /\ results[1].snapshot.supply_points.electricity =
           <<MeterNode(Prm1, "elec", "SERVC", "ON")>>
    /\ \E i \in 1..Len(issued) : issued[i].q = "elec_index"

\* the payment requests of the ledgers ls whose lookup returns a request,
\* in the order of ls
RequestsOf(ls) ==
    LET found == SelectSeq(WithNumber(ls),
                           LAMBDA l : upstream.pay[l.number] = "request")
    IN  [i \in 1..Len(found) |->
            [ledger_type |-> found[i].ledgerType,
             request |-> [request_of |-> found[i].number]]]

\* the ledger numbers cycle n looked up, in order
LookedUp(n) ==
    LET q == SelectSeq(IssuedIn(n), LAMBDA e : e.q = "payment")
    IN  [i \in 1..Len(q) |-> q[i].arg]

\* C13: a payment-request lookup that fails does not fail the cycle: a
\* cycle that has issued a lookup ends with a snapshot; the snapshot's
\* payment_requests holds exactly the ledgers whose lookup returned a
\* request (a ledger whose lookup failed is absent), and every ledger
\* with a number was looked up, those after a failing one too.
C13_FailedLookupSkipsOnlyItsLedger ==
    \A n \in 1..Len(results) :
        /\ LookedUp(n) # <<>> => results[n].kind = "snapshot"
        /\ results[n].kind = "snapshot" =>
               /\ results[n].snapshot.payment_requests =
                      Some(RequestsOf(results[n].snapshot.ledgers))
               /\ LookedUp(n) =
                      [i \in 1..Len(WithNumber(results[n].snapshot.ledgers)) |->
                          WithNumber(results[n].snapshot.ledgers)[i].number]

\* the lookup of the first ledger raised, the one of the second ledger was
\* made after it and gave a request: the snapshot holds the second only
C13_Witness_FirstLookupFails ==
    /\ upstream.pay["L1"] = "malformed"
    /\ upstream.pay["L2"] = "request"
    /\ Len(results) = 1
    /\ results[1].kind = "snapshot"
    /\ LookedUp(1) = <<"L1", "L2">>
    /\ results[1].snapshot.payment_requests =
           Some(<<[ledger_type |-> "FRA_GAS_LEDGER",
                   request |-> [request_of |-> "L2"]]>>)

\* C14: the upstream answers the same throughout; the second of two
\* consecutive refreshes ends as the first did, and when they deliver
\* snapshots the two are equal field for field, whatever token the first
\* cycle left behind (usable, expired in the meantime, or revoked by the
\* server).
C14_SecondCycleEqualsFirst ==
    Len(results) = 2 =>
        /\ results[2].kind = results[1].kind
        /\ results[2].snapshot = results[1].snapshot
        /\ results[2].error = results[1].error

\* two cycles delivered snapshots with readings and payment requests; the
\* token of the first login was revoked on the way and the query it was
\* rejected with was sent again after a second login
C14_Witness_TokenRevoked ==
    /\ Len(results) = 2
    /\ results[1].kind = "snapshot"
    /\ results[1].snapshot.electricity # None
    /\ results[1].snapshot.electricity[1].readings # <<>>
    /\ results[2].snapshot.payment_requests # Some(<<>>)
    /\ upstream.login.kind = "noexp"
    /\ logins = 2
    /\ revoked = 1

\* the snapshot of the last refresh that delivered one
LastDelivered ==
    LET ok == {n \in 1..Len(results) : results[n].kind = "snapshot"}
    IN  IF ok = {} THEN None
        ELSE Some(results[CHOOSE n \in ok : \A k \in ok : k <= n].snapshot)

\* snapshot ad holds what the enrichment queries of its cycle returned
FullyEnriched(ad) ==
    LET e == FirstMeter(ad.supply_points.electricity)
        g == FirstMeter(ad.supply_points.gas)
    IN  /\ ad.electricity =
               Some([readings |-> IF e = None THEN <<>>
                                  ELSE <<[reading_of |-> e[1]]>>,
                     index |-> IF e # None /\ upstream.index = "index"
                               THEN Some([index_of |-> e[1]]) ELSE None])
        /\ ad.gas = Some(IF g = None THEN <<>> ELSE <<[reading_of |-> g[1]]>>)
        /\ ad.payment_requests = Some(RequestsOf(ad.ledgers))

\* C17: consumers see no snapshot or the snapshot of the last refresh that
\* delivered one (a failed refresh changes nothing), never the one being
\* built; a delivered snapshot holds the electricity readings and index,
\* the gas readings and the payment requests its own cycle fetched; and
\* when a refresh has ended every query of its cycle has ended: at most one
\* query is under way, and only while a refresh runs.
C17_OnlyCompleteSnapshotsVisible ==
    /\ data = LastDelivered
    /\ \A n \in 1..Len(results) :
           results[n].kind = "snapshot" => FullyEnriched(results[n].snapshot)
    /\ Len(issued) = answered + (IF cycle.pos = "idle" THEN 0 ELSE 1)
    /\ \A i \in 1..Len(issued) :
           issued[i].cycle <= Len(results) + (IF cycle.pos = "idle" THEN 0 ELSE 1)

\* the second refresh is fetching the payment requests, its snapshot lacks
\* them still, and consumers see the snapshot of the first refresh
C17_Witness_PreviousSnapshotVisible ==
    /\ Len(results) = 1
    /\ results[1].kind = "snapshot"
    /\ cycle.pos = "payment"
    /\ cycle.ad.payment_requests = None
    /\ cycle.ad.gas # None
    /\ data = Some(results[1].snapshot)
    /\ results[1].snapshot.payment_requests # Some(<<>>)

\* C19: whatever _fetch_all_data raises outside the payment lookups (a
\* reading or index query that failed, "Authentication failed", an empty
\* response, an AttributeError or KeyError on a malformed entry, its own
\* UpdateFailed) reaches the host as UpdateFailed and as nothing else, and
\* the refresh that failed delivers no snapshot: consumers keep what they
\* had.
C19_EveryFailureIsUpdateFailed ==
    \A n \in 1..Len(results) :
        results[n].kind = "failed" =>
            /\ results[n].error = "UpdateFailed"
            /\ results[n].snapshot = NoData
            /\ data = LastDelivered

\* the account was fetched, the reading query of the electricity meter got
\* no response in any attempt (RuntimeError), and the refresh ended as
\* UpdateFailed with nothing delivered
C19_Witness_ReadingQueryFailed ==
    /\ upstream.elec = "unavailable"
    /\ Len(results) = 1
    /\ cycle.pos = "idle"
    /\ results[1].kind = "failed"
    /\ results[1].cause = ErrEmptyResponse
    /\ results[1].error = "UpdateFailed"
    /\ issued[Len(issued)].q = "elec_readings"
    /\ posts[CycleTask] = MAX_RETRY_ATTEMPTS
    /\ data = None

(***************************************************************************)
(* Properties of the token store among concurrent callers (Spec).          *)
(***************************************************************************)
\* a step in which task t's login response carried a token and set_token
\* stored it
StoredByLogin(t) ==
    /\ pc[t] = "post"
    /\ ctx[t] = "login"
    /\ login_body'[t] = "token"
    /\ token' # None
    /\ expiry' = Some(SetTokenExpiry(token'[1], set_at'))

\* a step in which task t called clear() on an authentication error
ClearedBy(t) ==
    /\ pc[t] = "post"
    /\ ctx[t] = "query"
    /\ Len(cleared'[t]) = Len(cleared[t]) + 1
    /\ token' = None
    /\ expiry' = None

\* C21: wherever the tasks are suspended, token and expiry are both unset
\* or both set; a step changes them only by set_token on a login response
\* that carries a token, or by clear(): no validity check, failed login,
\* retried POST or data query without authentication error changes them.
C21_TokenAndExpiryChangeTogether ==
    /\ [](token = None <=> expiry = None)
    /\ [][(token' # token \/ expiry' # expiry) =>
              \E t \in Tasks : StoredByLogin(t) \/ ClearedBy(t)]_vars

\* a token was stored, cleared on an authentication error, and another
\* login has stored the next one
C21_Witness_StoredAfterClear ==
    /\ token # None
    /\ expiry # None
    /\ TokenId(token) = 2
    /\ \E t \in Tasks : cleared[t] = <<1>>

(***************************************************************************)
(* Properties of _execute_with_auth on responses with errors (SpecExec).   *)
(***************************************************************************)
\* body b has an error list and none of its messages contains an
\* authentication keyword
ErrorsWithoutAuthKeyword(b) ==
    QueryBodies[b].errors # None /\ ~HasAuthError[b]

\* C22: when a response has an error list in which no message contains an
\* authentication keyword, _execute_with_auth ends on it: the response is
\* the last one, it is what the call returns, no query was sent and no
\* clear() made after it, and the token that was sent is still stored.
C22_OtherErrorsAreReturned ==
    \A t \in ExecTasks : \A i \in 1..Len(resp[t]) :
        ErrorsWithoutAuthKeyword(resp[t][i]) =>
            /\ pc[t] = "done"
            /\ i = Len(resp[t])
            /\ ret[t] = Return(resp[t][i])
            /\ Len(sent[t]) = i
            /\ Len(cleared[t]) = i - 1
            /\ token # None
            /\ TokenId(token) = sent[t][i]

(***************************************************************************)
(* Further properties of the refresh cycle (SpecCycle).                    *)
(***************************************************************************)
\* C23: a cycle that delivers a snapshot has issued exactly one
\* payment-request query for each distinct ledger number of the ledger map
\* (one query also when two ledgers have the same number) and none for a
\* ledger without a number.
C23_OneLookupPerLedgerNumber ==
    \A n \in 1..Len(results) :
        results[n].kind = "snapshot" =>
            LET ls == results[n].snapshot.ledgers
                numbers == {ls[i].number : i \in 1..Len(ls)} \ {""}
            IN  /\ \A nr \in numbers :
                       Cardinality({i \in 1..Len(LookedUp(n)) :
                                        LookedUp(n)[i] = nr}) = 1
                /\ \A i \in 1..Len(LookedUp(n)) : LookedUp(n)[i] \in numbers

(***************************************************************************)
(* Further properties of _extract_ledgers (SpecLedgers).                   *)
(***************************************************************************)
\* entry l of the primary list is not skipped for naming an inactive meter
Retained(l) ==
    ~ /\ l.ledgerType \in {"FRA_ELECTRICITY_LEDGER", "FRA_GAS_LEDGER"}
      /\ RegexMeterId(l.name) # None
      /\ RegexMeterId(l.name)[1] \notin ActivePrms(account.meters)

\* the first entry of list that has type ty and satisfies Keep, if any
FirstOfType(list, ty, Keep(_)) ==
    LET at == {i \in 1..Len(list) : list[i].ledgerType = ty /\ Keep(list[i])}
    IN  IF at = {} THEN None
        ELSE Some(list[CHOOSE i \in at : \A j \in at : i <= j])

\* C24: the ledger map has at most one ledger per type; for a type with
\* retained entries in the primary list it holds the first of them, and for
\* a type without one it holds the first credit-storage ledger of the type
\* (if any): a credit-storage ledger never replaces a primary one.
C24_FirstLedgerOfATypeWins ==
    ledgers # None =>
        /\ \A i, j \in 1..Len(ledgers[1]) :
               ledgers[1][i].ledgerType = ledgers[1][j].ledgerType => i = j
        /\ \A ty \in LedgerTypes :
               LET primary == FirstOfType(account.ledgers, ty, Retained)
                   credit == FirstOfType(account.credit, ty, LAMBDA l : TRUE)
                   kept == FirstOfType(ledgers[1], ty, LAMBDA l : TRUE)
               IN  kept = IF primary # None THEN primary ELSE credit

(***************************************************************************)
(* SpecNormalize: the normalizers of get_account_data on a payload in      *)
(* which one field below the account record is absent or null.  A payload  *)
(* gives each field its state, "ok", "absent" or "null"; the fields are    *)
(* named by their place:                                                   *)
(*   properties, supplyPoints, sp_edges, sp_node, meterPoint               *)
(*   ledgers, creditStorage                                                *)
(*   agreements, ag_edges, ag_node, supplyPoint, product, energySupplyRate *)
(*   consumptionRates, cr_edges, cr_node, pricePerUnit,                    *)
(*   pricePerUnitWithTaxes                                                 *)
(* A normalizer's outcome is "returns" or the exception it raises.         *)
(***************************************************************************)
PayloadFields ==
    {"properties", "supplyPoints", "sp_edges", "sp_node", "meterPoint",
     "ledgers", "creditStorage", "agreements", "ag_edges", "ag_node",
     "supplyPoint", "product", "energySupplyRate", "consumptionRates",
     "cr_edges", "cr_node", "pricePerUnit", "pricePerUnitWithTaxes"}

\* the complete payload, and the payloads with one field absent or null
Payloads ==
    {[f \in PayloadFields |-> "ok"]} \cup
    {[f \in PayloadFields |-> IF f = g THEN st ELSE "ok"] :
        g \in PayloadFields, st \in {"absent", "null"}}

\* the first exception of the accesses, taken in the order of the code; an
\* access is <<field state, exception raised when the field is null>>
RECURSIVE FirstRaise(_)
FirstRaise(accesses) ==
    IF accesses = <<>> THEN "returns"
    ELSE IF Head(accesses)[1] = "null" THEN Head(accesses)[2]
    ELSE FirstRaise(Tail(accesses))

\* "for x in d.get(k, [])": the default stands for an absent key only, and
\* iterating None raises TypeError
Iterated(st) == <<st, "TypeError">>

\* "d.get(k, {})[key] = value": item assignment on None raises TypeError
Assigned(st) == <<st, "TypeError">>

\* "d.get(k, {}).get(...)": None.get raises AttributeError
Dereferenced(st) == <<st, "AttributeError">>

\* "if v := d.get(k)", "if v:" and the float() inside try/except
\* (ValueError, TypeError): a null is skipped
Guarded(st) == <<"ok", "none">>

\* the walk over properties[].supplyPoints.edges[].node.meterPoint of
\* _extract_ledgers, then ledgers and creditStorage
_extract_ledgers_outcome(p) ==
    FirstRaise(<<Iterated(p.properties), Dereferenced(p.supplyPoints),
                 Iterated(p.sp_edges), Dereferenced(p.sp_node),
                 Dereferenced(p.meterPoint), Guarded(p.ledgers),
                 Dereferenced(p.creditStorage)>>)

\* _extract_supply_points: properties that are not a list give the empty
\* structure; meter_point["prm"] = ... on None raises TypeError
_extract_supply_points_outcome(p) ==
    IF p.properties # "ok" THEN "returns"
    ELSE FirstRaise(<<Dereferenced(p.supplyPoints), Iterated(p.sp_edges),
                      Dereferenced(p.sp_node), Assigned(p.meterPoint)>>)

\* _extract_tariffs: rate.get on a null node is inside the try, which does
\* not catch AttributeError
_extract_tariffs_outcome(p) ==
    FirstRaise(<<Dereferenced(p.consumptionRates), Iterated(p.cr_edges),
                 Dereferenced(p.cr_node), Guarded(p.pricePerUnit),
                 Guarded(p.pricePerUnitWithTaxes)>>)

\* _extract_agreements: _extract_tariffs is called for an energySupplyRate
\* that is there, before supplyPoint and product are read
_extract_agreements_outcome(p) ==
    LET walk == FirstRaise(<<Dereferenced(p.agreements), Iterated(p.ag_edges),
                             Dereferenced(p.ag_node)>>)
        rate == IF p.energySupplyRate = "ok" /\ p.agreements = "ok"
                   /\ p.ag_edges = "ok" /\ p.ag_node = "ok"
                THEN _extract_tariffs_outcome(p) ELSE "returns"
    IN  IF walk # "returns" THEN walk
        ELSE IF rate # "returns" THEN rate
        ELSE IF p.agreements # "ok" \/ p.ag_edges # "ok" \/ p.ag_node # "ok"
        THEN "returns"
        ELSE FirstRaise(<<Dereferenced(p.supplyPoint), Dereferenced(p.product)>>)

Normalizers == {"ledgers", "supply_points", "agreements", "tariffs"}

NormalizerOutcome(n, p) ==
    IF n = "ledgers" THEN _extract_ledgers_outcome(p)
    ELSE IF n = "supply_points" THEN _extract_supply_points_outcome(p)
    ELSE IF n = "agreements" THEN _extract_agreements_outcome(p)
    ELSE _extract_tariffs_outcome(p)

InitNormalize ==
    /\ InitClient
    /\ InitLedgersIdle
    /\ InitTariffsIdle
    /\ InitSession
    /\ upstream = [login |-> "none"]
    /\ InitCoordinator
    /\ InitSetupIdle
    /\ InitStatsIdle
    /\ \E p \in Payloads :
           norm = [payload |-> p, outcome |-> [n \in Normalizers |-> "not called"]]

\* normalizer n is applied to the payload
Normalize(n) ==
    /\ norm.outcome[n] = "not called"
    /\ norm' = [norm EXCEPT !.outcome[n] = NormalizerOutcome(n, norm.payload)]
    /\ UNCHANGED <<tmvars, lockvars, taskvars, histvars, purevars, sessvars,
                   cyclevars, setup, stats>>

NextNormalize == \E n \in Normalizers : Normalize(n)

SpecNormalize == InitNormalize /\ [][NextNormalize]_vars

\* C25: on a payload with one field absent or null every normalizer
\* returns: none of them raises.
C25_NormalizersNeverRaise ==
    \A n \in Normalizers : norm.outcome[n] \in {"not called", "returns"}

(***************************************************************************)
(* SpecFair: termination of the calls among concurrent callers.  Every     *)
(* HTTP attempt ends (response, error or timeout at 30 s) and the event    *)
(* loop resumes every task that can run: each task's steps are taken with  *)
(* weak fairness.  A request is answered at its first POST or at none of   *)
(* its POSTs but the one after MaxFailures failures, which the loop of     *)
(* _async_execute does not make; the clock moves with the sleeps only.     *)
(***************************************************************************)
FairTries == {0, MaxFailures}

\* a step of task t: it gets the lock, or its pending request completes
TaskStep(t) ==
    \/ LockAcquired(t)
    \/ \E n \in FairTries, f \in NetworkDown, b \in SomeLoginBodyIds,
          k \in SomeTokenKinds : LoginCompleted(t, n, f, b, k)
    \/ \E n \in FairTries, f \in NetworkDown, b \in SomeQueryBodyIds :
           QueryCompleted(t, n, f, b)
    \/ \E f \in NetworkDown : UndecodableAnswer(t, 0, f)

NextFair ==
    \/ \E t \in Tasks, o \in Ops : Start(t, o)
    \/ \E t \in Tasks : TaskStep(t)

SpecFair ==
    Init /\ [][NextFair]_vars /\ \A t \in Tasks : WF_vars(TaskStep(t))

\* C26: every call that was started ends (returns or raises), having sent
\* its data query at most twice and made at most two logins, no request
\* with more than MAX_RETRY_ATTEMPTS POSTs; a task that waits for the
\* authentication lock gets it, since authenticate() releases the lock on
\* every way out.
C26_EveryCallEnds ==
    /\ [](\A t \in Tasks :
              /\ Len(sent[t]) <= 2
              /\ mylogins[t] <= 2
              /\ posts[t] <= MAX_RETRY_ATTEMPTS
              /\ pc[t] = "done" => lock_holder # t)
    /\ \A t \in Tasks : (pc[t] # "idle") ~> (pc[t] = "done")
    /\ \A t \in Tasks : (pc[t] = "lock_wait") ~> (pc[t] # "lock_wait")

\* a call ended after two logins and two executions of its query, another
\* one having waited for the lock meanwhile
C26_Witness_TwoLoginsTwoQueries ==
    \E t, u \in Tasks :
        /\ t # u
        /\ pc[t] = "done"
        /\ mylogins[t] = 2
        /\ Len(sent[t]) = 2
        /\ waited_for[u] = t
        /\ pc[u] = "done"

(***************************************************************************)
(* SpecSetup: the life of one config entry.  async_setup_entry builds a    *)
(* new client, logs in, looks the account number up, makes the first       *)
(* refresh and stores the client; async_unload_entry closes it.  The host  *)
(* sets an entry up again after a failure or an unload.  The first POST of *)
(* a client opens its session (_ensure_session); the sessions of earlier   *)
(* clients stay in open_sessions until something closes them.              *)
(***************************************************************************)
MaxSetups == 3

\* entry.data.get("account_number", "")
ConfiguredAccounts == {"", "A-1", "A-9"}

\* how get_accounts ends: it raises, or returns the accounts' numbers
AccountsAnswers ==
    {[raises |-> TRUE, numbers |-> <<>>],
     [raises |-> FALSE, numbers |-> <<>>],
     [raises |-> FALSE, numbers |-> <<"A-1">>],
     [raises |-> FALSE, numbers |-> <<"A-2", "A-1">>]}

\* how api_client.authenticate() ends for a client without a token
AuthenticateResults == {"True", "False", "raises"}

\* _async_get_account_number: every exception is suppressed
_async_get_account_number(answer, configured_account) ==
    IF answer.raises \/ answer.numbers = <<>> THEN configured_account
    ELSE IF configured_account # ""
            /\ \E i \in 1..Len(answer.numbers) :
                   answer.numbers[i] = configured_account
    THEN configured_account
    ELSE answer.numbers[1]

SetupIdle ==
    [pos |-> "idle", count |-> 0, configured |-> "", account_number |-> "",
     opened |-> 0, stored |-> FALSE, result |-> "none"]

InitSetup ==
    /\ InitClient
    /\ InitLedgersIdle
    /\ InitTariffsIdle
    /\ InitSession
    /\ upstream = [login |-> "none"]
    /\ InitCoordinator
    /\ InitNormIdle
    /\ InitStatsIdle
    /\ setup = SetupIdle

setupframe ==
    <<tmvars, lockvars, taskvars, histvars, purevars, cyclevars, norm, stats,
      rpc, rsess, rres, cpc, closes>>

\* async_setup_entry is called: OctopusFrenchApiClient(...), whose
\* self._session is None, then the login is awaited
SetupStart(configured) ==
    /\ setup.pos \in {"idle", "failed", "unloaded"}
    /\ setup.count < MaxSetups
    /\ setup' = [setup EXCEPT !.pos = "authenticate",
                              !.count = @ + 1,
                              !.configured = configured,
                              !.account_number = "",
                              !.opened = 0,
                              !.result = "none"]
    /\ session' = 0
    /\ UNCHANGED <<open_sessions, created, setupframe>>

\* _async_authenticate: the login has opened the session of the client with
\* its first POST; a False is ConfigEntryAuthFailed, an exception
\* ConfigEntryNotReady, and both leave async_setup_entry at once
AuthenticateDone(r) ==
    /\ setup.pos = "authenticate"
    /\ created' = created + 1
    /\ session' = created + 1
    /\ open_sessions' = open_sessions \cup {created + 1}
    /\ setup' = [setup EXCEPT
                     !.opened = created + 1,
                     !.pos = IF r = "True" THEN "account_number" ELSE "failed",
                     !.result = IF r = "True" THEN @
                                ELSE IF r = "False" THEN "ConfigEntryAuthFailed"
                                ELSE "ConfigEntryNotReady"]
    /\ UNCHANGED setupframe

\* _async_get_account_number returns; the coordinator is built and its
\* first refresh is awaited
AccountNumberDone(answer) ==
    /\ setup.pos = "account_number"
    /\ setup' = [setup EXCEPT
                     !.pos = "first_refresh",
                     !.account_number =
                         _async_get_account_number(answer, setup.configured)]
    /\ UNCHANGED <<session, open_sessions, created, setupframe>>

\* _async_fetch_initial_data: a failed first refresh closes the client and
\* is ConfigEntryNotReady; after a successful one the client is stored in
\* hass.data, the devices, platforms and services are set up and
\* async_setup_entry returns True
FirstRefreshDone(ok) ==
    /\ setup.pos = "first_refresh"
    /\ IF ok
       THEN /\ setup' = [setup EXCEPT !.pos = "loaded", !.stored = TRUE,
                                      !.result = "True"]
            /\ UNCHANGED <<session, open_sessions>>
       ELSE /\ setup' = [setup EXCEPT !.pos = "failed",
                                      !.result = "ConfigEntryNotReady"]
            /\ open_sessions' = open_sessions \ {session}
            /\ session' = 0
    /\ UNCHANGED <<created, setupframe>>

\* async_unload_entry: when the platforms unloaded, the entry's data is
\* popped and the client closed; it returns unload_ok
UnloadEntry(unload_ok) ==
    /\ setup.pos = "loaded"
    /\ IF unload_ok
       THEN /\ setup' = [setup EXCEPT !.pos = "unloaded", !.stored = FALSE,
                                      !.result = "unloaded"]
            /\ open_sessions' = open_sessions \ {session}
            /\ session' = 0
       ELSE /\ setup' = [setup EXCEPT !.result = "not unloaded"]
            /\ UNCHANGED <<session, open_sessions>>
    /\ UNCHANGED <<created, setupframe>>

NextSetup ==
    \/ \E c \in ConfiguredAccounts : SetupStart(c)
    \/ \E r \in AuthenticateResults : AuthenticateDone(r)
    \/ \E a \in AccountsAnswers : AccountNumberDone(a)
    \/ \E ok \in BOOLEAN : FirstRefreshDone(ok)
    \/ \E ok \in BOOLEAN : UnloadEntry(ok)

SpecSetup == InitSetup /\ [][NextSetup]_vars

\* C28: whenever async_setup_entry ended in failure (ConfigEntryAuthFailed
\* after a rejected login, ConfigEntryNotReady after a login error or a
\* failed first refresh) the session opened during that setup is closed,
\* and so it is after a successful unload.
C28_SessionClosedAfterFailedSetup ==
    setup.pos \in {"failed", "unloaded"} => setup.opened \notin open_sessions

(***************************************************************************)
(* SpecStats: the statistics import of one electricity consumption sensor. *)
(* Days are numbered from 1, MonthDays to a month; a startAt is the number *)
(* of its day (ISO dates of one zone compare as their days do) and the     *)
(* start of a row is the local midnight of that day.  The upstream holds   *)
(* one value per day; a refresh delivers the readings of the window of     *)
(* _fetch_all_data, the first day of the current month up to today, as far *)
(* as the upstream has them and in the upstream's order.                   *)
(*                                                                         *)
(* _async_import_statistics has no await: it runs in one piece.  Whether   *)
(* hass.async_create_task runs it at once, before the state of the sensor  *)
(* is written and native_value sets _current_month, or after the handler   *)
(* returned, is the host's choice.                                         *)
(***************************************************************************)
MonthDays == 3
MaxMonths == 2
MaxUpdates == 2
ReadingValues == {0, 1, 2}

LastDay == MaxMonths * MonthDays

\* dt_util.now().strftime("%Y-%m")
_get_current_month(today) == (today - 1) \div MonthDays + 1

\* today_midnight.replace(day=1)
first_of_month(today) == (_get_current_month(today) - 1) * MonthDays + 1

\* the readings of the days from..upto, ascending or descending
Reading(truth, day) == [startAt |-> day, value |-> truth[day]]

RECURSIVE Readings(_, _, _, _)
Readings(truth, first, upto, ascending) ==
    IF upto < first THEN <<>>
    ELSE IF ascending
    THEN <<Reading(truth, first)>>
             \o Readings(truth, first + 1, upto, ascending)
    ELSE <<Reading(truth, upto)>>
             \o Readings(truth, first, upto - 1, ascending)

\* what a refresh of today can deliver as data["electricity"]["readings"]
Snapshots(truth, today) ==
    {Readings(truth, first_of_month(today), upto, asc) :
         upto \in (first_of_month(today) - 1)..today, asc \in BOOLEAN}

\* sorted(readings, key=startAt): stable
RECURSIVE sorted_by_startAt(_)
sorted_by_startAt(readings) ==
    IF readings = <<>> THEN <<>>
    ELSE LET rest == sorted_by_startAt(Tail(readings))
             x == Head(readings)
             before == SelectSeq(rest, LAMBDA r : r.startAt < x.startAt)
             after == SelectSeq(rest, LAMBDA r : r.startAt >= x.startAt)
         IN  before \o <<x>> \o after

\* (variant: a reading that was imported before is left out of the sum)
import_reading_uncounted(acc, reading, imported) ==
    IF reading.startAt = 0 THEN acc
    ELSE IF imported /\ acc.last # 0 /\ reading.startAt <= acc.last
    THEN acc
    ELSE IF reading.value > 0
    THEN [statistics |->
              Append(acc.statistics,
                     [start |-> reading.startAt, state |-> reading.value,
                      sum |-> acc.cumulative_sum + reading.value]),
          cumulative_sum |-> acc.cumulative_sum + reading.value,
          last |-> reading.startAt]
    ELSE acc

\* one turn of the loop over sorted_readings: a reading without a date is
\* passed over; one dated at or before _last_imported_date after a
\* successful import only counts in the sum; any other with a positive
\* value counts, gives a row and moves _last_imported_date
import_reading(acc, reading, imported) ==
    IF reading.startAt = 0 THEN acc
    ELSE IF imported /\ acc.last # 0 /\ reading.startAt <= acc.last
    THEN [acc EXCEPT !.cumulative_sum =
                         IF reading.value > 0 THEN @ + reading.value ELSE @]
    ELSE IF reading.value > 0
    THEN [statistics |->
              Append(acc.statistics,
                     [start |-> reading.startAt, state |-> reading.value,
                      sum |-> acc.cumulative_sum + reading.value]),
          cumulative_sum |-> acc.cumulative_sum + reading.value,
          last |-> reading.startAt]
    ELSE acc

RECURSIVE import_loop(_, _, _)
import_loop(acc, sorted_readings, imported) ==
    IF sorted_readings = <<>> THEN acc
    ELSE import_loop(import_reading(acc, Head(sorted_readings), imported),
                     Tail(sorted_readings), imported)

\* the rows of one call as the recorder is handed them: at is the number
\* of the call and month the month it ran in
Emitted(statistics, at, month) ==
    [i \in 1..Len(statistics) |->
         [start |-> statistics[i].start, state |-> statistics[i].state,
          sum |-> statistics[i].sum, at |-> at, month |-> month]]

\* _async_import_statistics on the sensor st; ok is whether
\* async_add_external_statistics returns
_async_import_statistics(st, ok) ==
    IF st.readings = <<>> THEN st
    ELSE
    LET current_month == _get_current_month(st.today)
        reset == st._statistics_imported /\ st._last_imported_date # 0
                     /\ current_month # st._current_month
        s1 == IF reset
              THEN [st EXCEPT !._statistics_imported = FALSE,
                              !._last_imported_date = 0]
              ELSE st
        acc == import_loop([statistics |-> <<>>, cumulative_sum |-> 0,
                            last |-> s1._last_imported_date],
                           sorted_by_startAt(s1.readings),
                           s1._statistics_imported)
    IN  IF acc.statistics = <<>> THEN s1
        ELSE [s1 EXCEPT !._last_imported_date = acc.last,
                        !._statistics_imported = IF ok THEN TRUE ELSE @,
                        !.imports = @ + 1,
                        !.rows = @ \o Emitted(acc.statistics, st.imports + 1,
                                              current_month)]

\* native_value of a conso_ sensor, read when its state is written
native_value(st) ==
    [st EXCEPT !._current_month = _get_current_month(st.today)]

\* the import task and the state write of one handler, in the host's order
ImportAndWrite(st, eager, ok) ==
    IF eager THEN native_value(_async_import_statistics(st, ok))
    ELSE _async_import_statistics(native_value(st), ok)

statsframe ==
    <<tmvars, lockvars, taskvars, histvars, purevars, sessvars, cyclevars,
      norm, setup>>

\* the sensor is constructed after the first refresh of day 1; 0 is None
InitStats ==
    /\ InitClient
    /\ InitLedgersIdle
    /\ InitTariffsIdle
    /\ InitSession
    /\ upstream = [login |-> "none"]
    /\ InitCoordinator
    /\ InitNormIdle
    /\ InitSetupIdle
    /\ \E truth \in [1..LastDay -> ReadingValues] :
       \E readings \in Snapshots(truth, 1) :
           stats = [pos |-> "new", truth |-> truth, today |-> 1,
                    readings |-> readings, updates |-> 0,
                    _current_month |-> 0, _last_imported_date |-> 0,
                    _statistics_imported |-> FALSE, imports |-> 0,
                    rows |-> <<>>]

\* async_added_to_hass, then the first state write
AddedToHass(eager, ok) ==
    /\ stats.pos = "new"
    /\ stats' = [ImportAndWrite(stats, eager, ok) EXCEPT !.pos = "added"]
    /\ UNCHANGED statsframe

\* a refresh delivers readings; _handle_coordinator_update starts an import
\* once one has succeeded, and writes the state
CoordinatorUpdate(upto, ascending, eager, ok) ==
    /\ stats.pos = "added"
    /\ stats.updates < MaxUpdates
    /\ upto \in (first_of_month(stats.today) - 1)..stats.today
    /\ LET st == [stats EXCEPT
                      !.updates = @ + 1,
                      !.readings = Readings(stats.truth,
                                            first_of_month(stats.today),
                                            upto, ascending)]
       IN  stats' = IF st._statistics_imported
                    THEN ImportAndWrite(st, eager, ok)
                    ELSE native_value(st)
    /\ UNCHANGED statsframe

\* midnight
DayPasses ==
    /\ stats.pos = "added"
    /\ stats.today < LastDay
    /\ stats' = [stats EXCEPT !.today = @ + 1]
    /\ UNCHANGED statsframe

NextStats ==
    \/ \E eager, ok \in BOOLEAN : AddedToHass(eager, ok)
    \/ \E upto \in 0..LastDay, ascending, eager, ok \in BOOLEAN :
           CoordinatorUpdate(upto, ascending, eager, ok)
    \/ DayPasses

SpecStats == InitStats /\ [][NextStats]_vars

\* the sum of the positive values of the readings dated up to day
RECURSIVE RunningTotal(_, _)
RunningTotal(readings, day) ==
    IF readings = <<>> THEN 0
    ELSE RunningTotal(Tail(readings), day)
         + (IF Head(readings).startAt <= day /\ Head(readings).value > 0
            THEN Head(readings).value ELSE 0)

\* the rows the step hands to the recorder
NewRows == SubSeq(stats'.rows, Len(stats.rows) + 1, Len(stats'.rows))

\* C29: within one month a reading is emitted as a row at most once; after a
\* successful import no reading dated at or before _last_imported_date is
\* emitted again; and the sum of every emitted row is the total of the
\* positive values of the readings up to and including its own.
C29_EachReadingEmittedOnce ==
    /\ [](stats.pos # "none" =>
             \A i, j \in 1..Len(stats.rows) :
                 (i # j /\ stats.rows[i].month = stats.rows[j].month) =>
                     stats.rows[i].start # stats.rows[j].start)
    /\ [][stats.pos # "none" =>
              \A i \in 1..Len(NewRows) :
                  /\ NewRows[i].sum =
                         RunningTotal(stats'.readings, NewRows[i].start)
                  /\ (stats._statistics_imported
                      /\ stats._current_month = _get_current_month(stats.today))
                         => NewRows[i].start > stats._last_imported_date]_vars

\* a second import of the month emitted a row whose sum counts readings
\* that were imported before
C29_Witness_LaterImportCountsEarlierReadings ==
    /\ stats.pos = "added"
    /\ \E i, j \in 1..Len(stats.rows) :
           /\ stats.rows[i].month = stats.rows[j].month
           /\ stats.rows[i].at < stats.rows[j].at
           /\ stats.rows[j].sum > stats.rows[j].state

\* C30: across refreshes and imports, a month rollover included, the sum
\* emitted for a later date is never smaller than the sum emitted before
\* for an earlier date.
C30_SumsNeverDecrease ==
    stats.pos # "none" =>
        \A i, j \in 1..Len(stats.rows) :
            (i < j /\ stats.rows[i].start < stats.rows[j].start) =>
                stats.rows[i].sum <= stats.rows[j].sum

====
